---- MODULE Spec2Model ----
(***************************************************************************)
(* Model of the tinyCI runner framework (package fw): the lifecycle loop   *)
(* Entrypoint.iterate, the signal goroutine of makeGracefulRestartSignal,  *)
(* the per-run goroutine with its deferred finalizer, the cancellation     *)
(* poller respondToCancelSignal and the drain routine processCancel,       *)
(* running against a queue service whose RPCs may fail.                    *)
(*                                                                         *)
(* Every goroutine is a process with a program counter; one action is one  *)
(* step between two points where another goroutine can interleave (a lock  *)
(* acquisition, an RPC, a sleep, a call into the executor).                *)
(***************************************************************************)
EXTENDS Integers, Sequences, FiniteSets, TLC

\* ---------------------------------------------------------------- bounds
\* number of items the queue service hands out during one process lifetime
MaxRuns == 2
\* max_concurrency of the Kubernetes executor's configuration
MaxConcurrency == 2
Runs == 1..MaxRuns

\* the executors: the overlay (Docker) runner and the Kubernetes runner; the
\* null runner, whose Ready is constantly true, behaves as the Kubernetes
\* runner does when max_concurrency is not reached
RunnerKinds == {"docker", "k8s"}

\* the Kubernetes runner whose configuration leaves max_concurrency unset:
\* ExtraLoad defaults it to 1
DefaultConcurrency == 1
CapKinds == RunnerKinds \cup {"k8s-default"}

VARIABLES
    \* --- Entrypoint
    terminate,      \* e.terminate
    runMap,         \* e.runMap, as the set of runs that are keys of the map
    runMapMutex,    \* TRUE once the signal goroutine holds e.runMapMutex
    lifetimeDone,   \* lifetimeCtx is cancelled
    exited,         \* "no", or which os.Exit(0) ended the process
    \* --- lifecycle loop (Entrypoint.loop / iterate)
    loopPc,         \* position of the loop inside iterate
    count,          \* iterate's local count
    cur,            \* the run iterate is dispatching (0: none)
    \* --- executor (Runner)
    runnerKind,     \* which Runner is launched
    running,        \* overlay-runner Runner.running
    runCount,       \* k8s-runner Runner.runCount
    \* --- queue service
    nextId,         \* id of the next queue item NextQueueItem returns
    qCancel,        \* cancel state of each run at the queue service
    qStatus,        \* status of each run at the queue service
    \* --- per run
    ctxDone,        \* runnerCtx.Ctx: "no", "canceled" (by a poller),
                    \* "finished" (by RunDocker on its return) or "deadline"
    rpc,            \* position of the run goroutine
    status,         \* the bool returned by run.Run()
    \* --- signal goroutine
    sigPc,          \* position of the signal goroutine
    cancelPc,       \* position of each processCancel goroutine
    \* --- observation of the calls made (history)
    events,         \* per run, the lifecycle events in the order they happened
    setStatusOk,    \* per run, a SetStatus call has been answered ok
    setCancelOk,    \* per run, a SetCancel call has been answered ok
    \* --- overlay runner: the Run.RunDocker call under way
    dPc,            \* position inside RunDocker ("off": no call under way)
    dRun,           \* the run of the last RunDocker call (0: none yet)
    image,          \* Run.Settings.Image of the queue item
    pulled,         \* the reference handed to client.ImagePull (<<>>: none)
    tmpDirs,        \* the temp directories of MountRepo that exist
    mounted,        \* the overlay of the run is mounted
    unmounts,       \* successful Unmount calls for the mount of the run
    creates,        \* ContainerCreate attempts made by boot
    dStatus,        \* the bool RunDocker returns
    dErr,           \* the step whose error the last RunDocker call returns
                    \* ("none": nil)
    waitCode,       \* the StatusCode ContainerWait answered in the last
                    \* RunDocker call (NoCode: none)
    createLogs,     \* "could not create container, retrying" lines of boot
    logger,         \* the goroutine of StartLogger: "off", "reading" the
                    \* pipe, or "failed" (Asset.Write returned an error)
    \* --- git.RepoManager
    gitPc,          \* position inside RepoManager.Run ("idle": no call)
    gitCmds,        \* RepoManager.Run calls PullRepo has completed
    script,         \* the login script exists at Config.LoginScriptPath
    \* --- overlay runner: the Run.PullRepo call, command by command
    rPc,            \* position inside PullRepo ("off": not called)
    sub,            \* what PullRepo reads of the queue item and the machine
    defaultBranch,  \* PullRepo's local defaultBranchName
    noMerge,        \* PullRepo's local doNotMerge
    repoPath,       \* rm.RepoPath
    forkRemote,     \* rm.ForkRemote
    todo,           \* the commands the RepoManager method under way has
                    \* yet to run
    cmds,           \* the commands run so far, each with its success
    rErr,           \* the command whose error PullRepo returns ("none": nil)
    \* --- fw/overlay: a Mount struct and the calls made on it
    ovl,            \* the Mount struct: Lower, Work, Upper, Target
    mountTable,     \* the targets with an overlay mounted on them
    oOp,            \* the last call made on the struct ("none": none yet)
    oErr,           \* what that call returned: "none" (nil), "invalid"
                    \* (validate's error) or "syscall" (the system call's)
    \* --- overlay runner: an outputPullRead call
    pPc,            \* position: "off", "scan" (in the loop), "returned"
    idMap,          \* idMap: layer id -> <<current, total>>
    line,           \* the decoded line (m) of the last loop iteration
    scanned,        \* lines scanned by the call
    rendered,       \* the <<cur, sum>> pairs written as a percentage
    \* --- k8s runner: a Run.Run call
    kPc,            \* position inside Run ("off": not called)
    kCtx,           \* r.runCtx.Ctx is done
    secret,         \* the Secret of the run: "none", "created", "deleted"
    job,            \* the CIJob of the run: "none", "created", "deleted"
    deletes,        \* the objects a Delete was issued for
    logCopy,        \* Run's local logCopy
    copies,         \* copyLog goroutines started
    polled,         \* job.Status as the last successful poll read it
    kRes            \* what Run returns: the bool and the error ("none": nil)

vars == <<terminate, runMap, runMapMutex, lifetimeDone, exited, loopPc, count,
          cur, runnerKind, running, runCount, nextId, qCancel, qStatus,
          ctxDone, rpc, status, sigPc, cancelPc,
          events, setStatusOk, setCancelOk,
          dPc, dRun, image, pulled, tmpDirs, mounted, unmounts, creates,
          dStatus, dErr, waitCode, createLogs, logger, gitPc, gitCmds, script,
          rPc, sub, defaultBranch, noMerge, repoPath, forkRemote, todo, cmds,
          rErr, ovl, mountTable, oOp, oErr, pPc, idMap, line, scanned,
          rendered, kPc, kCtx, secret, job, deletes, logCopy, copies, polled,
          kRes>>

entryVars  == <<terminate, runMap, runMapMutex, lifetimeDone, exited>>
loopVars   == <<loopPc, count, cur>>
dockerVars == <<dPc, dRun, image, pulled, tmpDirs, mounted, unmounts, creates,
                dStatus, dErr, waitCode, createLogs, logger>>
gitVars    == <<gitPc, gitCmds, script>>
repoVars   == <<rPc, sub, defaultBranch, noMerge, repoPath, forkRemote, todo,
                cmds, rErr>>
ovlVars    == <<ovl, mountTable, oOp, oErr>>
pullVars   == <<pPc, idMap, line, scanned, rendered>>
k8sVars    == <<kPc, kCtx, secret, job, deletes, logCopy, copies, polled,
                kRes>>
fwVars     == <<ovlVars, pullVars, k8sVars>>
unitVars   == <<dockerVars, gitVars, repoVars, fwVars>>
execVars   == <<runnerKind, running, runCount, unitVars>>
queueVars  == <<nextId, qCancel, qStatus>>
runVars    == <<ctxDone, rpc, status>>
sigVars    == <<sigPc, cancelPc>>
histVars   == <<events, setStatusOk, setCancelOk>>

\* the exit codes a container can end with, and the value standing for "no
\* wait result"
ExitCodes == {0, 1, 2}
NoCode == -1

\* strings that the code takes apart are sequences of characters
HeadsPrefix == <<"h", "e", "a", "d", "s", "/">>
TagsPrefix  == <<"t", "a", "g", "s", "/">>

\* ref names: heads/main, heads/staging, tags/v1, main
RefNames ==
    { HeadsPrefix \o <<"m", "a", "i", "n">>,
      HeadsPrefix \o <<"s", "t", "a", "g", "i", "n", "g">>,
      TagsPrefix \o <<"v", "1">>,
      <<"m", "a", "i", "n">> }

\* merge_options.ignore_refs: none, heads/staging, heads/staging and tags/v1
IgnoreSets ==
    { {},
      {HeadsPrefix \o <<"s", "t", "a", "g", "i", "n", "g">>},
      {HeadsPrefix \o <<"s", "t", "a", "g", "i", "n", "g">>,
       TagsPrefix \o <<"v", "1">>} }

\* repository names of the parent: o/r, or, o/r/x, ../r
ParentNames ==
    { <<"o", "/", "r">>, <<"o", "r">>, <<"o", "/", "r", "/", "x">>,
      <<".", ".", "/", "r">> }

\* repository names of the fork: f/r, o/r, f, f../r
ForkNames ==
    { <<"f", "/", "r">>, <<"o", "/", "r">>, <<"f">>,
      <<"f", ".", ".", "/", "r">> }

\* Config.BaseRepoPath: /b
BaseRepoPath == <<"/", "b">>

\* what PullRepo reads: the submission's repository and ref names, the merge
\* options, and of the machine whether $HOME is set and ~/.gitconfig exists
\* what os.Stat(rm.RepoPath) finds: nothing (an error), a file, a directory
RepoDirs == {"missing", "file", "dir"}

Items ==
    [parent : ParentNames, fork : ForkNames, baseRef : RefNames,
     headRef : RefNames, doNotMerge : BOOLEAN, ignoreRefs : IgnoreSets,
     home : BOOLEAN, gitconfig : BOOLEAN, repoDir : RepoDirs]

\* no PullRepo call yet
NoItem ==
    [parent |-> <<>>, fork |-> <<>>, baseRef |-> <<>>, headRef |-> <<>>,
     doNotMerge |-> FALSE, ignoreRefs |-> {}, home |-> FALSE,
     gitconfig |-> FALSE, repoDir |-> "missing"]

\* the process is alive: os.Exit has not been called
\* paths: /a, /a.b, a, /a/../b, /a..b
Paths ==
    { <<"/", "a">>,
      <<"/", "a", ".", "b">>,
      <<"a">>,
      <<"/", "a", "/", ".", ".", "/", "b">>,
      <<"/", "a", ".", ".", "b">> }

\* the Mount structs a caller can build, and the struct before it is built
Mounts == [Lower : Paths, Work : Paths, Upper : Paths, Target : Paths]
NoMount == [Lower |-> <<>>, Work |-> <<>>, Upper |-> <<>>, Target |-> <<>>]

\* the byte counts a pull event reports
Sizes == {0, 1, 2}
\* the "status" of a pull event; NoField stands for a key that is missing
\* or whose value is not a string
NoField == "<none>"
Statuses == {"Downloading", "Pull complete", "Extracting", "", NoField}
\* the "id" of a pull event
LayerIds == {"l1", "l2", "", NoField}
\* the "progressDetail" of a pull event: ok is the result of the type
\* assertion to a map, len the number of its keys, current and total what
\* the assertions to float64 give (0 for a missing key)
ProgressDetails ==
    {[ok |-> FALSE, len |-> 0, current |-> 0, total |-> 0],
     [ok |-> TRUE, len |-> 0, current |-> 0, total |-> 0]}
    \cup {[ok |-> TRUE, len |-> 2, current |-> c, total |-> t] :
               c \in Sizes, t \in Sizes}
    \cup {[ok |-> TRUE, len |-> 1, current |-> c, total |-> 0] :
               c \in Sizes \ {0}}
\* the decoded lines of the pull stream
Lines == [status : Statuses, id : LayerIds, progressDetail : ProgressDetails]
NoLine ==
    [status |-> NoField, id |-> NoField,
     progressDetail |-> [ok |-> FALSE, len |-> 0, current |-> 0, total |-> 0]]
\* idMap := map[string][]float64{}
NoLayers == [l \in {} |-> <<0, 0>>]

\* job.Status of a CIJob as Run reads it: PodName stands for PodName != ""
JobStatuses ==
    [PodName : BOOLEAN, Canceled : BOOLEAN, Finished : BOOLEAN,
     Success : BOOLEAN]
NoStatus ==
    [PodName |-> FALSE, Canceled |-> FALSE, Finished |-> FALSE,
     Success |-> FALSE]
\* the zero result of Run
NoResult == [status |-> FALSE, err |-> "none"]

Alive == exited = "no"

\* ------------------------------------------------------------- initial state
\* Launch: e.runMap = runMap{}; loop: Init, makeGracefulRestartSignal, for {}
Booted ==
    /\ terminate = FALSE
    /\ runMap = {}
    /\ runMapMutex = FALSE
    /\ lifetimeDone = FALSE
    /\ exited = "no"
    /\ loopPc = "start"
    /\ count = 0
    /\ cur = 0
    /\ running = FALSE
    /\ runCount = 0
    /\ nextId = 1
    /\ qCancel = [r \in Runs |-> FALSE]
    /\ qStatus = [r \in Runs |-> "unset"]
    /\ ctxDone = [r \in Runs |-> "no"]
    /\ rpc = [r \in Runs |-> "idle"]
    /\ status = [r \in Runs |-> FALSE]
    /\ sigPc = "recv"
    /\ cancelPc = [r \in Runs |-> "off"]
    /\ events = [r \in Runs |-> <<>>]
    /\ setStatusOk = [r \in Runs |-> FALSE]
    /\ setCancelOk = [r \in Runs |-> FALSE]
    /\ dPc = "off"
    /\ dRun = 0
    /\ image = <<>>
    /\ pulled = <<>>
    /\ tmpDirs = {}
    /\ mounted = FALSE
    /\ unmounts = 0
    /\ creates = 0
    /\ dStatus = FALSE
    /\ dErr = "none"
    /\ waitCode = NoCode
    /\ createLogs = 0
    /\ logger = "off"
    /\ gitPc = "idle"
    /\ gitCmds = 0
    /\ script = FALSE
    /\ rPc = "off"
    /\ sub = NoItem
    /\ defaultBranch = <<>>
    /\ noMerge = FALSE
    /\ repoPath = <<>>
    /\ forkRemote = <<>>
    /\ todo = <<>>
    /\ cmds = <<>>
    /\ rErr = "none"
    /\ ovl = NoMount
    /\ mountTable = {}
    /\ oOp = "none"
    /\ oErr = "none"
    /\ pPc = "off"
    /\ idMap = NoLayers
    /\ line = NoLine
    /\ scanned = 0
    /\ rendered = <<>>
    /\ kPc = "off"
    /\ kCtx = FALSE
    /\ secret = "none"
    /\ job = "none"
    /\ deletes = {}
    /\ logCopy = FALSE
    /\ copies = 0
    /\ polled = NoStatus
    /\ kRes = NoResult

Init == Booted /\ runnerKind \in RunnerKinds

\* ------------------------------------------------------------------ executor
\* Runner.Ready of the launched executor
Cap ==
    CASE runnerKind = "docker" -> 1
      [] runnerKind = "k8s"    -> MaxConcurrency
      [] OTHER                 -> DefaultConcurrency

Ready ==
    IF runnerKind = "docker" THEN ~running ELSE runCount < Cap

\* Runner.MakeRun: the executor's bookkeeping when the Run handle is created
MakeRun ==
    /\ running' = IF runnerKind = "docker" THEN TRUE ELSE running
    /\ runCount' = IF runnerKind # "docker" THEN runCount + 1 ELSE runCount
    /\ UNCHANGED <<runnerKind, unitVars>>

\* Runner.AfterRun: the executor's hook called by the finalizer
RunnerAfterRun ==
    /\ running' = IF runnerKind = "docker" THEN FALSE ELSE running
    /\ runCount' = IF runnerKind # "docker" THEN runCount - 1 ELSE runCount
    /\ UNCHANGED <<runnerKind, unitVars>>

\* ------------------------------------------------------------- queue service
\* What GetCancel can answer for run r on a context that is cancelled or not:
\* "err", or the cancel state the service holds.
GetCancelAnswers(r, ctxCancelled) ==
    IF ctxCancelled THEN {"err"}
    ELSE {"err", IF qCancel[r] THEN "true" ELSE "false"}

\* What SetStatus can answer for run r: "ok" (recorded), "already" (the
\* service has a status for the run), "lost" (recorded, but the answer did
\* not reach the runner), "err" (not recorded).
SetStatusAnswers(r, ctxCancelled) ==
    IF ctxCancelled THEN {"err"}
    ELSE IF qStatus[r] = "unset" THEN {"ok", "lost", "err"}
    ELSE {"already", "err"}

\* append event ev to the history of run r, once per maximal repetition
Log(r, ev) ==
    IF events[r] # <<>> /\ events[r][Len(events[r])] = ev
    THEN events
    ELSE [events EXCEPT ![r] = Append(@, ev)]

\* ---------------------------------------------------------------- iterate
\* IterCount as it would be if it counted the runs dispatched so far instead
\* of the runs still in e.runMap
IterCountDispatched ==
    /\ Alive /\ loopPc = "start"
    /\ ~runMapMutex
    /\ count' = nextId - 1
    /\ loopPc' = "chkExit"
    /\ UNCHANGED <<entryVars, cur, execVars, queueVars, runVars, sigVars, histVars>>

\* lines 263-265: count := uint(len(e.runMap)) under the read lock
IterCount ==
    /\ Alive /\ loopPc = "start"
    /\ ~runMapMutex
    /\ count' = Cardinality(runMap)
    /\ loopPc' = "chkExit"
    /\ UNCHANGED <<entryVars, cur, execVars, queueVars, runVars, sigVars, histVars>>

\* IterCheckExit as it would be if the exit test forgot the number of active
\* runs: if e.getTerminate() { os.Exit(0) }
IterCheckExitAnyCount ==
    /\ Alive /\ loopPc = "chkExit"
    /\ IF terminate
       THEN /\ exited' = "graceful"
            /\ UNCHANGED loopPc
       ELSE /\ loopPc' = "chkReady"
            /\ UNCHANGED exited
    /\ count' = 0
    /\ UNCHANGED <<terminate, runMap, runMapMutex, lifetimeDone, cur,
                   execVars, queueVars, runVars, sigVars, histVars>>

\* lines 267-270: if count == 0 && e.getTerminate() { os.Exit(0) }
IterCheckExit ==
    /\ Alive /\ loopPc = "chkExit"
    /\ IF count = 0 /\ terminate
       THEN /\ exited' = "graceful"
            /\ UNCHANGED loopPc
       ELSE /\ loopPc' = "chkReady"
            /\ UNCHANGED exited
    /\ count' = 0   \* the local is dead after this line
    /\ UNCHANGED <<terminate, runMap, runMapMutex, lifetimeDone, cur,
                   execVars, queueVars, runVars, sigVars, histVars>>

\* IterCheckReady as it would be if only the executor gated the dequeue:
\* if !runner.Ready() { sleep; return nil }
IterCheckReadyNoTerminate ==
    /\ Alive /\ loopPc = "chkReady"
    /\ loopPc' = IF ~Ready THEN "start" ELSE "next"
    /\ UNCHANGED <<entryVars, count, cur, execVars, queueVars, runVars, sigVars, histVars>>

\* IterCheckReady as it would be if the executor were not asked:
\* if e.getTerminate() { sleep; return nil }
IterCheckReadyIgnoringReady ==
    /\ Alive /\ loopPc = "chkReady"
    /\ loopPc' = IF terminate THEN "start" ELSE "next"
    /\ UNCHANGED <<entryVars, count, cur, execVars, queueVars, runVars, sigVars, histVars>>

\* lines 272-275: if e.getTerminate() || !runner.Ready() { sleep; return nil }
IterCheckReady ==
    /\ Alive /\ loopPc = "chkReady"
    /\ loopPc' = IF terminate \/ ~Ready THEN "start" ELSE "next"
    /\ UNCHANGED <<entryVars, count, cur, execVars, queueVars, runVars, sigVars, histVars>>

\* lines 277-306: NextQueueItem(ctx, ...) and, for an item, the RunContext
\* with its cancel token (WithTimeout when the item has a timeout)
IterNext ==
    /\ Alive /\ loopPc = "next"
    /\ \/ \* an item
          /\ ~lifetimeDone /\ nextId <= MaxRuns
          /\ cur' = nextId
          /\ nextId' = nextId + 1
          /\ loopPc' = "makeRun"
       \/ \* codes.NotFound: return nil
          /\ ~lifetimeDone
          /\ loopPc' = "start"
          /\ UNCHANGED <<cur, nextId>>
       \/ \* any other error: log, sleep, then look at ctx.Done()
          /\ loopPc' = "chkCtx"
          /\ UNCHANGED <<cur, nextId>>
    /\ UNCHANGED <<entryVars, count, execVars, qCancel, qStatus, ctxDone, rpc,
                   status, sigVars, events, setStatusOk, setCancelOk>>

\* IterCheckCtx setting terminate after every error, whatever the state of
\* the lifetime context
IterCheckCtxAlwaysTerminates ==
    /\ Alive /\ loopPc = "chkCtx"
    /\ terminate' = TRUE
    /\ loopPc' = "start"
    /\ UNCHANGED <<runMap, runMapMutex, lifetimeDone, exited, count, cur,
                   execVars, queueVars, runVars, sigVars, histVars>>

\* lines 288-294: select { case <-ctx.Done(): e.SetTerminate(log) }; return nil
IterCheckCtx ==
    /\ Alive /\ loopPc = "chkCtx"
    /\ terminate' = (terminate \/ lifetimeDone)
    /\ loopPc' = "start"
    /\ UNCHANGED <<runMap, runMapMutex, lifetimeDone, exited, count, cur,
                   execVars, queueVars, runVars, sigVars, histVars>>

\* lines 308-313: run, err := runner.MakeRun(runName, runnerCtx)
\* (no Runner of the repository returns an error here)
IterMakeRun ==
    /\ Alive /\ loopPc = "makeRun"
    /\ MakeRun
    /\ loopPc' = "insert"
    /\ UNCHANGED <<entryVars, count, cur, queueVars, runVars, sigVars, histVars>>

\* lines 315-321: e.runMap[run] = runnerCtx under the write lock, then the
\* two go statements (the poller and the run goroutine); return nil
IterInsert ==
    /\ Alive /\ loopPc = "insert"
    /\ ~runMapMutex
    /\ runMap' = runMap \cup {cur}
    /\ rpc' = [rpc EXCEPT ![cur] = "BeforeRun"]
    /\ cur' = 0
    /\ loopPc' = "start"
    /\ UNCHANGED <<terminate, runMapMutex, lifetimeDone, exited, count,
                   execVars, queueVars, ctxDone, status, sigVars, histVars>>

iterate ==
    \/ IterCount
    \/ IterCheckExit
    \/ IterCheckReady
    \/ IterNext
    \/ IterCheckCtx
    \/ IterMakeRun
    \/ IterInsert

\* ------------------------------------------------------------ run goroutine
\* GoBeforeRun with the finalizer not deferred: the return on an error ends
\* the goroutine at once
GoBeforeRunNoDefer(r) ==
    /\ Alive /\ rpc[r] = "BeforeRun"
    /\ \E err \in BOOLEAN :
          rpc' = [rpc EXCEPT ![r] = IF err THEN "done" ELSE "Run"]
    /\ events' = Log(r, "BeforeRun")
    /\ UNCHANGED <<entryVars, loopVars, execVars, queueVars, ctxDone,
                   status, sigVars, setStatusOk, setCancelOk>>

\* lines 332-335: run.BeforeRun(); on an error the goroutine returns, which
\* runs the deferred finalizer
GoBeforeRun(r) ==
    /\ Alive /\ rpc[r] = "BeforeRun"
    /\ \E err \in BOOLEAN :
          rpc' = [rpc EXCEPT ![r] = IF err THEN "Delete" ELSE "Run"]
    /\ events' = Log(r, "BeforeRun")
    /\ UNCHANGED <<entryVars, loopVars, execVars, queueVars, ctxDone,
                   status, sigVars, setStatusOk, setCancelOk>>

\* lines 337-340: status, err := run.Run(); an error is only logged. The
\* Run of the overlay runner is RunDocker, whose deferred function
\* (docker.go 468-475) cancels the run's context unless it is done already.
GoRun(r) ==
    /\ Alive /\ rpc[r] = "Run"
    /\ \E st \in BOOLEAN : status' = [status EXCEPT ![r] = st]
    /\ ctxDone' = IF runnerKind = "docker" /\ ctxDone[r] = "no"
                  THEN [ctxDone EXCEPT ![r] = "finished"]
                  ELSE ctxDone
    /\ rpc' = [rpc EXCEPT ![r] = "AfterRun"]
    /\ events' = Log(r, "Run")
    /\ UNCHANGED <<entryVars, loopVars, execVars, queueVars,
                   sigVars, setStatusOk, setCancelOk>>

\* GoAfterRun as it would be if the removal from e.runMap were done right
\* after run.AfterRun() instead of in the deferred function
GoAfterRunRemoveFirst(r) ==
    /\ Alive /\ rpc[r] = "AfterRun"
    /\ ~runMapMutex
    /\ runMap' = runMap \ {r}
    /\ rpc' = [rpc EXCEPT ![r] = "GetCancel"]
    /\ events' = [events EXCEPT ![r] = Append(Append(@, "AfterRun"), "Remove")]
    /\ UNCHANGED <<terminate, runMapMutex, lifetimeDone, exited, loopVars,
                   execVars, queueVars, ctxDone, status, sigVars, setStatusOk,
                   setCancelOk>>

\* lines 342-344: run.AfterRun(); an error is only logged
GoAfterRun(r) ==
    /\ Alive /\ rpc[r] = "AfterRun"
    /\ rpc' = [rpc EXCEPT ![r] = "GetCancel"]
    /\ events' = Log(r, "AfterRun")
    /\ UNCHANGED <<entryVars, loopVars, execVars, queueVars, ctxDone,
                   status, sigVars, setStatusOk, setCancelOk>>

\* GoGetCancel as it would be if the answer of GetCancel were dropped and
\* the status reported whenever the call succeeded
GoGetCancelIgnoringTrue(r) ==
    /\ Alive /\ rpc[r] = "GetCancel"
    /\ \E a \in GetCancelAnswers(r, lifetimeDone) :
          rpc' = [rpc EXCEPT ![r] = IF a = "err" THEN "GetCancel" ELSE "SetStatus"]
    /\ events' = Log(r, "Report")
    /\ UNCHANGED <<entryVars, loopVars, execVars, queueVars, ctxDone,
                   status, sigVars, setStatusOk, setCancelOk>>

\* lines 346-355, normalRetry: GetCancel(ctx, id) on the lifetime context;
\* an error sleeps a second and retries from normalRetry, true ends the
\* goroutine, false reports
GoGetCancel(r) ==
    /\ Alive /\ rpc[r] = "GetCancel"
    /\ \E a \in GetCancelAnswers(r, lifetimeDone) :
          rpc' = [rpc EXCEPT ![r] =
                    CASE a = "err"  -> "GetCancel"
                      [] a = "true" -> "Delete"
                      [] OTHER      -> "SetStatus"]
    /\ events' = Log(r, "Report")
    /\ UNCHANGED <<entryVars, loopVars, execVars, queueVars, ctxDone,
                   status, sigVars, setStatusOk, setCancelOk>>

\* GoSetStatus as it would be without the retry: an error of SetStatus is
\* logged and the goroutine goes on to its deferred function
GoSetStatusNoRetry(r) ==
    /\ Alive /\ rpc[r] = "SetStatus"
    /\ \E a \in SetStatusAnswers(r, lifetimeDone) :
          /\ qStatus' = IF a \in {"ok", "lost"}
                        THEN [qStatus EXCEPT ![r] = IF status[r] THEN "pass" ELSE "fail"]
                        ELSE qStatus
          /\ setStatusOk' = IF a = "ok"
                            THEN [setStatusOk EXCEPT ![r] = TRUE]
                            ELSE setStatusOk
    /\ rpc' = [rpc EXCEPT ![r] = "Delete"]
    /\ events' = Log(r, "Report")
    /\ UNCHANGED <<entryVars, loopVars, execVars, nextId, qCancel,
                   ctxDone, status, sigVars, setCancelOk>>

\* lines 356-364: SetStatus(ctx, id, status); "status already set for run"
\* counts as done, any other error sleeps a second and goes back to
\* normalRetry
GoSetStatus(r) ==
    /\ Alive /\ rpc[r] = "SetStatus"
    /\ \E a \in SetStatusAnswers(r, lifetimeDone) :
          /\ qStatus' = IF a \in {"ok", "lost"}
                        THEN [qStatus EXCEPT ![r] = IF status[r] THEN "pass" ELSE "fail"]
                        ELSE qStatus
          /\ setStatusOk' = IF a = "ok"
                            THEN [setStatusOk EXCEPT ![r] = TRUE]
                            ELSE setStatusOk
          /\ rpc' = [rpc EXCEPT ![r] =
                       IF a \in {"ok", "already"} THEN "Delete" ELSE "GetCancel"]
    /\ events' = Log(r, "Report")
    /\ UNCHANGED <<entryVars, loopVars, execVars, nextId, qCancel,
                   ctxDone, status, sigVars, setCancelOk>>

\* lines 322-327, the deferred function: delete(e.runMap, run) under the
\* write lock
GoDelete(r) ==
    /\ Alive /\ rpc[r] = "Delete"
    /\ ~runMapMutex
    /\ runMap' = runMap \ {r}
    /\ rpc' = [rpc EXCEPT ![r] = "Hook"]
    /\ events' = Log(r, "Remove")
    /\ UNCHANGED <<terminate, runMapMutex, lifetimeDone, exited, loopVars,
                   execVars, queueVars, ctxDone, status,
                   sigVars, setStatusOk, setCancelOk>>

\* line 329, end of the deferred function: runner.AfterRun(runName, runnerCtx)
GoHook(r) ==
    /\ Alive /\ rpc[r] = "Hook"
    /\ RunnerAfterRun
    /\ rpc' = [rpc EXCEPT ![r] = "done"]
    /\ UNCHANGED <<entryVars, loopVars, queueVars, ctxDone, status,
                   sigVars, histVars>>

runGoroutine(r) ==
    \/ GoBeforeRun(r)
    \/ GoRun(r)
    \/ GoAfterRun(r)
    \/ GoGetCancel(r)
    \/ GoSetStatus(r)
    \/ GoDelete(r)
    \/ GoHook(r)

\* ------------------------------------------------------- cancellation poller
\* lines 245-258, started by the go statement of line 319: the goroutine
\* leaves when the run's context is done; until then it calls GetCancel on
\* the run's context every second and fires the token when the answer is
\* true (an error answers false)
PollerLive(r) == rpc[r] # "idle" /\ ctxDone[r] = "no"

\* the poller as it would be if an error of GetCancel counted as a cancel:
\* if cancel || err != nil { CancelFunc() }
respondToCancelSignalOnError(r) ==
    /\ Alive /\ PollerLive(r)
    /\ \E a \in GetCancelAnswers(r, FALSE) : a # "false"
    /\ ctxDone' = [ctxDone EXCEPT ![r] = "canceled"]
    /\ UNCHANGED <<entryVars, loopVars, execVars, queueVars, rpc, status,
                   sigVars, histVars>>

respondToCancelSignal(r) ==
    /\ Alive /\ PollerLive(r)
    /\ "true" \in GetCancelAnswers(r, FALSE)
    /\ ctxDone' = [ctxDone EXCEPT ![r] = "canceled"]
    /\ UNCHANGED <<entryVars, loopVars, execVars, queueVars, rpc, status,
                   sigVars, histVars>>

\* line 305: the item has a timeout (context.WithTimeout) and its deadline
\* passes; an item without timeout never takes this step
Deadline(r) ==
    /\ Alive /\ r < nextId
    /\ ctxDone[r] = "no"
    /\ ctxDone' = [ctxDone EXCEPT ![r] = "deadline"]
    /\ UNCHANGED <<entryVars, loopVars, execVars, queueVars, rpc, status,
                   sigVars, histVars>>

\* ---------------------------------------------------------- signal goroutine
\* lines 190-193 and 220: signal.Notify(sigChan, SIGHUP, SIGINT, SIGTERM) and
\* the goroutine ranging over sigChan. A signal is handled when the goroutine
\* is at the receive; while it handles SIGINT/SIGTERM, which never returns to
\* the receive, further signals stay unhandled.

\* e.SetTerminate: e.terminate = true under terminateMutex
SetTerminate == terminate' = TRUE

\* SigHangup as it would be if SIGHUP also fired the cancel token of every
\* active run
SigHangupCancelling ==
    /\ Alive /\ sigPc = "recv"
    /\ SetTerminate
    /\ ctxDone' = [r \in Runs |-> IF r \in runMap /\ ctxDone[r] = "no"
                                  THEN "canceled" ELSE ctxDone[r]]
    /\ UNCHANGED <<runMap, runMapMutex, lifetimeDone, exited, loopVars,
                   execVars, queueVars, rpc, status, sigPc, cancelPc, histVars>>

\* lines 211-215, case SIGHUP: log, e.SetTerminate(log)
SigHangup ==
    /\ Alive /\ sigPc = "recv"
    /\ SetTerminate
    /\ UNCHANGED <<runMap, runMapMutex, lifetimeDone, exited, loopVars,
                   execVars, queueVars, runVars, sigPc, cancelPc, histVars>>

\* lines 195-204, case SIGINT, SIGTERM: take e.runMapMutex (held until exit)
\* and start one processCancel goroutine for every entry of e.runMap
SigInterrupt ==
    /\ Alive /\ sigPc = "recv"
    /\ runMapMutex' = TRUE
    /\ cancelPc' = [r \in Runs |-> IF r \in runMap THEN "GetCancel" ELSE "off"]
    /\ sigPc' = "wait"
    /\ UNCHANGED <<terminate, runMap, lifetimeDone, exited, loopVars, execVars,
                   queueVars, runVars, histVars>>

\* lines 205-206: wg.Wait() returns once every processCancel has returned;
\* lifetimeCancel()
SigWait ==
    /\ Alive /\ sigPc = "wait"
    /\ \A r \in runMap : cancelPc[r] = "returned"
    /\ lifetimeDone' = TRUE
    /\ sigPc' = "exit"
    /\ UNCHANGED <<terminate, runMap, runMapMutex, exited, loopVars, execVars,
                   queueVars, runVars, cancelPc, histVars>>

\* lines 207-210: log "Shutting down runner"; os.Exit(0)
SigExit ==
    /\ Alive /\ sigPc = "exit"
    /\ exited' = "hardstop"
    /\ UNCHANGED <<terminate, runMap, runMapMutex, lifetimeDone, loopVars,
                   execVars, queueVars, runVars, sigVars, histVars>>

\* lines 224-232 of processCancel: GetCancel on the background context; an
\* error is logged and slept on, and leaves didCancel false; didCancel true
\* returns, false goes on to SetCancel
PcGetCancel(r) ==
    /\ Alive /\ cancelPc[r] = "GetCancel"
    /\ \E a \in GetCancelAnswers(r, FALSE) :
          cancelPc' = [cancelPc EXCEPT ![r] =
                         IF a = "true" THEN "returned" ELSE "SetCancel"]
    /\ UNCHANGED <<entryVars, loopVars, execVars, queueVars, runVars, sigPc,
                   histVars>>

\* lines 233-239 of processCancel: SetCancel(id); an error is logged and
\* slept on; goto retry in either case
PcSetCancel(r) ==
    /\ Alive /\ cancelPc[r] = "SetCancel"
    /\ \E a \in {"ok", "err"} :
          /\ qCancel' = IF a = "err" THEN qCancel ELSE [qCancel EXCEPT ![r] = TRUE]
          /\ setCancelOk' = IF a = "ok"
                            THEN [setCancelOk EXCEPT ![r] = TRUE]
                            ELSE setCancelOk
    /\ cancelPc' = [cancelPc EXCEPT ![r] = "GetCancel"]
    /\ UNCHANGED <<entryVars, loopVars, execVars, nextId, qStatus, runVars,
                   sigPc, events, setStatusOk>>

processCancel(r) == PcGetCancel(r) \/ PcSetCancel(r)

makeGracefulRestartSignal == SigHangup \/ SigInterrupt \/ SigWait \/ SigExit

\* ------------------------------------------------------------- environment
\* somebody cancels run r at the queue service (the state GetCancel reads)
OperatorCancel(r) ==
    /\ Alive /\ r < nextId /\ ~qCancel[r]
    /\ qCancel' = [qCancel EXCEPT ![r] = TRUE]
    /\ UNCHANGED <<entryVars, loopVars, execVars, nextId, qStatus, runVars,
                   sigVars, histVars>>

\* ------------------------------------------------------------ specification
Next ==
    \/ IterCount
    \/ IterCheckExit
    \/ IterCheckReady
    \/ IterNext
    \/ IterCheckCtx
    \/ IterMakeRun
    \/ IterInsert
    \/ \E r \in Runs : GoBeforeRun(r)
    \/ \E r \in Runs : GoRun(r)
    \/ \E r \in Runs : GoAfterRun(r)
    \/ \E r \in Runs : GoGetCancel(r)
    \/ \E r \in Runs : GoSetStatus(r)
    \/ \E r \in Runs : GoDelete(r)
    \/ \E r \in Runs : GoHook(r)
    \/ \E r \in Runs : respondToCancelSignal(r)
    \/ SigHangup
    \/ SigInterrupt
    \/ SigWait
    \/ SigExit
    \/ \E r \in Runs : PcGetCancel(r)
    \/ \E r \in Runs : PcSetCancel(r)
    \/ \E r \in Runs : OperatorCancel(r)

\* The lifecycle with queue items that carry no timeout (line 302-303: a
\* plain cancel token), under every interleaving of the loop, the run
\* goroutines, the pollers, the signal goroutine and the queue service
Spec == Init /\ [][Next]_vars

\* Spec under the scheduling guarantees of the Go runtime: a goroutine that
\* can take a step eventually takes one. The signals, the operator and the
\* answers of the queue service are not forced.
Fairness ==
    /\ WF_vars(iterate)
    /\ WF_vars(SigWait \/ SigExit)
    /\ \A r \in Runs : WF_vars(runGoroutine(r))
    /\ \A r \in Runs : WF_vars(processCancel(r))
    /\ \A r \in Runs : WF_vars(respondToCancelSignal(r))

\* the liveness claims are checked with the overlay (docker) runner, which
\* executes one run at a time
FairInit == Init /\ runnerKind = "docker"

FairSpec == FairInit /\ [][Next]_vars /\ Fairness

\* ------------------------------------------------- overlay runner: RunDocker
\* number of RepoManager.Run calls (git commands) one PullRepo makes
MaxGitCmds == 2
\* boot: for i := 0; i < 5; i++ { ContainerCreate ... }
CreateRetries == 5

\* image references, as the sequence of their parts and separators
Images == {<<"alpine">>, <<"a", "/", "b">>, <<"quay.io", "/", "a", "/", "b">>}

\* strings.Count(img, "/")
Slashes(img) == Cardinality({i \in DOMAIN img : img[i] = "/"})

\* the resolution of docker.go 92-102: docker.io/ in front of a reference
\* with at most one "/", library/ as well when it has none
ResolveImage(img) ==
    IF Slashes(img) <= 1
    THEN <<"docker.io", "/">> \o
         (IF Slashes(img) = 0 THEN <<"library", "/">> \o img ELSE img)
    ELSE img

\* the temp directories of MountRepo, in the order it creates them
DirOrder == <<"work", "upper", "target">>
\* the order in which Mount.Cleanup removes them
CleanupOrder == <<"work", "upper", "target">>

\* everything outside the RunDocker call
lifeVars == <<entryVars, loopVars, runnerKind, running, runCount, queueVars,
              sigVars, setStatusOk, setCancelOk, repoVars, fwVars>>

\* runCtx.Ctx of the run inside RunDocker is not done
CtxLive == ctxDone[dRun] = "no"

\* a Write to pw returns: the goroutine of StartLogger is inside Asset.Write,
\* reading pr. Nobody else reads pr and nobody closes it before RunDocker
\* returns (docker.go 479-481), so a Write made after Asset.Write returned
\* blocks
PipeOpen == logger = "reading"

\* docker.go 350-359, mirrorLog returns: it writes to pw unless the context
\* of the run is done
CanMirror == ~CtxLive \/ PipeOpen

\* run.go 42-44 and docker.go 467-481: Run() is RunDocker(); the deferred
\* cancel is registered, the second poller (StartCancelFunc) and the logger
\* are started
GoRunStart(r) ==
    /\ Alive /\ rpc[r] = "Run" /\ runnerKind = "docker" /\ dPc = "off"
    /\ dRun' = r
    /\ image' \in Images
    /\ dPc' = "PullRepo"
    /\ dErr' = "none"
    /\ waitCode' = NoCode
    /\ logger' = "reading"
    /\ UNCHANGED <<lifeVars, runVars, events, pulled, tmpDirs, mounted,
                   unmounts, creates, createLogs, dStatus, gitVars>>

\* RunDocker returns (false, err) for the error of step e; the deferred
\* functions registered so far run: MountCleanup when registered (after),
\* then the cancel
DkFail(e, after) ==
    /\ dErr' = e
    /\ dStatus' = FALSE
    /\ dPc' = IF after THEN "Unmount" ELSE "exit"
    /\ UNCHANGED waitCode

\* RunDocker reports the error of step e with mirrorLog before it returns
\* it (docker.go 496, 501, 515; boot 427, 455): when mirrorLog writes to a
\* pipe nobody reads, the goroutine stays in that Write
DkMirror(e) ==
    IF CanMirror
    THEN DkFail(e, TRUE)
    ELSE /\ dPc' = "blocked"
         /\ UNCHANGED <<dStatus, waitCode, dErr>>

\* git.go 24-60 of the overlay runner, and the steps of CloneOrFetch and
\* AddOrFetchFork that are not RepoManager.Run calls: an error of PullRepo
\* outside a git command
DkPullRepoFail ==
    /\ Alive /\ dPc = "PullRepo" /\ gitPc = "idle"
    /\ DkFail("git", FALSE)
    /\ UNCHANGED <<lifeVars, runVars, events, dRun, logger, image, pulled, tmpDirs,
                   mounted, unmounts, creates, createLogs, gitVars>>

\* git.go 293 and 136-139: RepoManager.Run starts with createLoginScript,
\* whose os.Create makes (or truncates) the script
GitCreate ==
    /\ Alive /\ dPc = "PullRepo" /\ gitPc = "idle" /\ gitCmds < MaxGitCmds
    /\ \/ /\ script' = TRUE
          /\ gitPc' = "write"
          /\ UNCHANGED <<dPc, dStatus, waitCode, dErr>>
       \/ /\ DkFail("git", FALSE)
          /\ UNCHANGED <<script, gitPc>>
    /\ UNCHANGED <<lifeVars, runVars, events, dRun, logger, image, pulled, tmpDirs,
                   mounted, unmounts, creates, createLogs, gitCmds>>

\* git.go 142-149: f.WriteString; its error is returned by
\* createLoginScript and by Run (293-295)
GitWrite ==
    /\ Alive /\ dPc = "PullRepo" /\ gitPc = "write"
    /\ \/ /\ gitPc' = "chmod"
          /\ UNCHANGED <<dPc, dStatus, waitCode, dErr>>
       \/ /\ DkFail("git", FALSE)
          /\ gitPc' = "idle"
    /\ UNCHANGED <<lifeVars, runVars, events, dRun, logger, image, pulled, tmpDirs,
                   mounted, unmounts, creates, createLogs, gitCmds, script>>

\* git.go 151: os.Chmod; on success Run registers removeLoginScript (296)
GitChmod ==
    /\ Alive /\ dPc = "PullRepo" /\ gitPc = "chmod"
    /\ \/ /\ gitPc' = "start"
          /\ UNCHANGED <<dPc, dStatus, waitCode, dErr>>
       \/ /\ DkFail("git", FALSE)
          /\ gitPc' = "idle"
    /\ UNCHANGED <<lifeVars, runVars, events, dRun, logger, image, pulled, tmpDirs,
                   mounted, unmounts, creates, createLogs, gitCmds, script>>

\* git.go 154-156: os.Remove(LoginScriptPath); its error is dropped by the
\* defer of line 296
removeLoginScript == \E ok \in BOOLEAN : script' = (script /\ ~ok)

\* git.go 298-307: pty.Start(cmd); on an error Run returns, which runs
\* removeLoginScript
GitStart ==
    /\ Alive /\ dPc = "PullRepo" /\ gitPc = "start"
    /\ \/ /\ gitPc' = "wait"
          /\ UNCHANGED <<dPc, dStatus, waitCode, dErr, script>>
       \/ /\ removeLoginScript
          /\ DkFail("git", FALSE)
          /\ gitPc' = "idle"
    /\ UNCHANGED <<lifeVars, runVars, events, dRun, logger, image, pulled, tmpDirs,
                   mounted, unmounts, creates, createLogs, gitCmds>>

\* git.go 308-312: cmd.Wait() with the subprocess live; Run returns its
\* result after tty.Close and removeLoginScript
GitWait ==
    /\ Alive /\ dPc = "PullRepo" /\ gitPc = "wait"
    /\ removeLoginScript
    /\ gitPc' = "idle"
    /\ \/ /\ gitCmds' = gitCmds + 1
          /\ UNCHANGED <<dPc, dStatus, waitCode, dErr>>
       \/ /\ DkFail("git", FALSE)
          /\ UNCHANGED gitCmds
    /\ UNCHANGED <<lifeVars, runVars, events, dRun, logger, image, pulled, tmpDirs,
                   mounted, unmounts, creates, createLogs>>

\* git.go 84 of the overlay runner: PullRepo returns the RepoManager
DkPullRepoDone ==
    /\ Alive /\ dPc = "PullRepo" /\ gitPc = "idle" /\ gitCmds = MaxGitCmds
    /\ dPc' = "MountRepo"
    /\ UNCHANGED <<lifeVars, runVars, events, dRun, logger, image, pulled, tmpDirs,
                   mounted, unmounts, creates, createLogs, dStatus, waitCode, dErr, gitVars>>

\* overlay.go 14-27 of the overlay runner: the next ioutil.TempDir
DkTempDir ==
    /\ Alive /\ dPc = "MountRepo" /\ Cardinality(tmpDirs) < Len(DirOrder)
    /\ \/ /\ tmpDirs' = tmpDirs \cup {DirOrder[Cardinality(tmpDirs) + 1]}
          /\ UNCHANGED <<dPc, dStatus, waitCode, dErr>>
       \/ /\ DkFail("mount", FALSE)
          /\ UNCHANGED tmpDirs
    /\ UNCHANGED <<lifeVars, runVars, events, dRun, logger, image, pulled, mounted,
                   unmounts, creates, createLogs, gitVars>>

\* overlay.go 29-36 and docker.go 488-492: m.Mount(); on success RunDocker
\* registers defer r.MountCleanup(m)
DkMount ==
    /\ Alive /\ dPc = "MountRepo" /\ Cardinality(tmpDirs) = Len(DirOrder)
    /\ \/ /\ mounted' = TRUE
          /\ dPc' = "pullImage"
          /\ UNCHANGED <<dStatus, waitCode, dErr>>
       \/ /\ DkFail("mount", FALSE)
          /\ UNCHANGED mounted
    /\ UNCHANGED <<lifeVars, runVars, events, dRun, logger, image, pulled, tmpDirs,
                   unmounts, creates, createLogs, gitVars>>


\* docker.go 362-381 and 494-498: pullImage hands Settings.Image to
\* client.ImagePull(r.runCtx.Ctx, img, ...), which fails when the context is
\* done; on success outputPullRead (315-349) writes the progress of the pull
\* to pw, starting with fmt.Fprintln(w)
DkPullImage ==
    /\ Alive /\ dPc = "pullImage"
    /\ pulled' = image
    /\ \/ /\ CtxLive
          /\ dPc' = IF PipeOpen THEN "boot" ELSE "blocked"
          /\ UNCHANGED <<dStatus, waitCode, dErr>>
       \/ DkMirror("pull")
    /\ UNCHANGED <<lifeVars, runVars, events, dRun, logger, image, tmpDirs, mounted,
                   unmounts, creates, createLogs, gitVars>>

\* DkCreate with the loop written as i <= 5
DkCreateOneMore ==
    /\ Alive /\ dPc = "boot" /\ creates <= CreateRetries
    /\ creates' = creates + 1
    /\ \/ /\ CtxLive
          /\ dPc' = "start"
          /\ UNCHANGED <<dStatus, waitCode, dErr, createLogs>>
       \/ /\ createLogs' = createLogs + 1
          /\ IF creates = CreateRetries
             THEN DkMirror("create")
             ELSE UNCHANGED <<dPc, dStatus, waitCode, dErr>>
    /\ UNCHANGED <<lifeVars, runVars, events, dRun, logger, image, pulled, tmpDirs,
                   mounted, unmounts, gitVars>>

\* docker.go 412-429: one ContainerCreate attempt of boot; a failed attempt
\* is logged ("could not create container, retrying"), after the fifth
\* failure boot gives up
DkCreate ==
    /\ Alive /\ dPc = "boot" /\ creates < CreateRetries
    /\ creates' = creates + 1
    /\ \/ /\ CtxLive
          /\ dPc' = "start"
          /\ UNCHANGED <<dStatus, waitCode, dErr, createLogs>>
       \/ /\ createLogs' = createLogs + 1
          /\ IF creates + 1 = CreateRetries
             THEN DkMirror("create")
             ELSE UNCHANGED <<dPc, dStatus, waitCode, dErr>>
    /\ UNCHANGED <<lifeVars, runVars, events, dRun, logger, image, pulled, tmpDirs,
                   mounted, unmounts, gitVars>>

\* docker.go 431-463 and 500-503: the attach goroutine is started, then
\* ContainerStart (a failed ContainerResize is skipped)
DkStart ==
    /\ Alive /\ dPc = "start"
    /\ \/ /\ CtxLive
          /\ dPc' = "supervise"
          /\ UNCHANGED <<dStatus, waitCode, dErr>>
       \/ DkMirror("start")
    /\ UNCHANGED <<lifeVars, runVars, events, dRun, logger, image, pulled, tmpDirs,
                   mounted, unmounts, creates, createLogs, gitVars>>

\* DkSupervise with every wait result taken as a pass
DkSuperviseAnyExitPasses ==
    /\ Alive /\ dPc = "supervise"
    /\ \/ /\ CtxLive
          /\ waitCode' \in ExitCodes
          /\ dStatus' = TRUE
          /\ dErr' = "none"
          /\ dPc' = "Unmount"
       \/ DkMirror("wait")
    /\ UNCHANGED <<lifeVars, runVars, events, dRun, logger, image, pulled, tmpDirs,
                   mounted, unmounts, creates, createLogs, gitVars>>

\* docker.go 508-518, supervise: ContainerWait answers with the exit code of
\* the container or, when the context is done or the daemon fails, an error
DkSupervise ==
    /\ Alive /\ dPc = "supervise"
    /\ \/ /\ CtxLive
          /\ waitCode' \in ExitCodes
          /\ dStatus' = (waitCode' = 0)
          /\ dErr' = "none"
          /\ dPc' = "Unmount"
       \/ DkMirror("wait")
    /\ UNCHANGED <<lifeVars, runVars, events, dRun, logger, image, pulled, tmpDirs,
                   mounted, unmounts, creates, createLogs, gitVars>>

\* docker.go 492, the deferred r.MountCleanup(m), overlay.go 40-43: an error
\* of m.Unmount() is returned (and dropped by the defer) before m.Cleanup()
DkUnmount ==
    /\ Alive /\ dPc = "Unmount"
    /\ \/ /\ mounted' = FALSE
          /\ unmounts' = unmounts + 1
          /\ dPc' = "RemoveAll"
       \/ /\ dPc' = "exit"
          /\ UNCHANGED <<mounted, unmounts>>
    /\ UNCHANGED <<lifeVars, runVars, events, dRun, logger, image, pulled, tmpDirs,
                   creates, createLogs, dStatus, waitCode, dErr, gitVars>>

\* fw/overlay/overlay.go 84-92, Mount.Cleanup: os.RemoveAll of the next
\* directory; the first error ends the loop
DkRemoveAll ==
    /\ Alive /\ dPc = "RemoveAll"
    /\ LET done == Len(CleanupOrder) - Cardinality(tmpDirs)
       IN  \/ /\ tmpDirs' = tmpDirs \ {CleanupOrder[done + 1]}
              /\ dPc' = IF done + 1 = Len(CleanupOrder) THEN "exit" ELSE "RemoveAll"
           \/ /\ dPc' = "exit"
              /\ UNCHANGED tmpDirs
    /\ UNCHANGED <<lifeVars, runVars, events, dRun, logger, image, pulled, mounted,
                   unmounts, creates, createLogs, dStatus, waitCode, dErr, gitVars>>

\* DkExit with the cancel and the Close made only on the path that returns
\* no error
DkExitOnSuccessOnly ==
    /\ Alive /\ dPc = "exit"
    /\ ctxDone' = IF CtxLive /\ dErr = "none"
                  THEN [ctxDone EXCEPT ![dRun] = "finished"] ELSE ctxDone
    /\ logger' = IF logger = "reading" /\ dErr = "none" THEN "off" ELSE logger
    /\ dPc' = "returned"
    /\ UNCHANGED <<lifeVars, rpc, status, events, dRun, image, pulled, tmpDirs,
                   mounted, unmounts, creates, createLogs, dStatus, waitCode,
                   dErr, gitVars>>

\* docker.go 480 and 468-475, the first two defers of RunDocker, run last:
\* pw.Close() ends the Asset.Write of a logger that is still reading, and
\* the context of the run is cancelled unless it is done
DkExit ==
    /\ Alive /\ dPc = "exit"
    /\ ctxDone' = IF CtxLive THEN [ctxDone EXCEPT ![dRun] = "finished"] ELSE ctxDone
    /\ logger' = IF logger = "reading" THEN "off" ELSE logger
    /\ dPc' = "returned"
    /\ UNCHANGED <<lifeVars, rpc, status, events, dRun, image, pulled, tmpDirs,
                   mounted, unmounts, creates, createLogs, dStatus, waitCode,
                   dErr, gitVars>>

\* run.go 80-86, the goroutine of StartLogger: Asset.Write returns an error
\* while RunDocker is under way; the error is logged and the goroutine ends
LoggerFail ==
    /\ Alive /\ logger = "reading"
    /\ logger' = "failed"
    /\ UNCHANGED <<lifeVars, runVars, events, dPc, dRun, image, pulled,
                   tmpDirs, mounted, unmounts, creates, createLogs, dStatus,
                   waitCode, dErr, gitVars>>

RunDocker ==
    \/ DkPullRepoFail \/ GitCreate \/ GitWrite \/ GitChmod \/ GitStart
    \/ GitWait \/ DkPullRepoDone \/ DkTempDir \/ DkMount \/ DkPullImage
    \/ DkCreate \/ DkStart \/ DkSupervise \/ DkUnmount \/ DkRemoveAll
    \/ DkExit

\* GoRunReturn with the run goroutine returning on an error of Run(), as the
\* goroutine does on an error of BeforeRun(): the deferred delete is all
\* that is left of the lifecycle
GoRunReturnEndingOnError(r) ==
    /\ Alive /\ rpc[r] = "Run" /\ dRun = r /\ dPc = "returned"
    /\ status' = [status EXCEPT ![r] = dStatus]
    /\ rpc' = [rpc EXCEPT ![r] = IF dErr = "none" THEN "AfterRun" ELSE "Delete"]
    /\ events' = Log(r, "Run")
    /\ dPc' = "off"
    /\ image' = <<>>
    /\ pulled' = <<>>
    /\ tmpDirs' = {}
    /\ mounted' = FALSE
    /\ unmounts' = 0
    /\ creates' = 0
    /\ createLogs' = 0
    /\ dStatus' = FALSE
    /\ gitCmds' = 0
    /\ UNCHANGED <<lifeVars, ctxDone, dRun, dErr, waitCode, logger, gitPc,
                   script>>

\* part_011 lines 337-340 with the Run of the overlay runner: status, err :=
\* run.Run() gets what RunDocker returned; an error is only logged. The
\* locals of the call are gone; the login script is a file at a fixed path;
\* dRun, dErr, waitCode and logger keep the run, the error, the wait result
\* and the fate of the logger of the call that returned last.
GoRunReturn(r) ==
    /\ Alive /\ rpc[r] = "Run" /\ dRun = r /\ dPc = "returned"
    /\ status' = [status EXCEPT ![r] = dStatus]
    /\ rpc' = [rpc EXCEPT ![r] = "AfterRun"]
    /\ events' = Log(r, "Run")
    /\ dPc' = "off"
    /\ image' = <<>>
    /\ pulled' = <<>>
    /\ tmpDirs' = {}
    /\ mounted' = FALSE
    /\ unmounts' = 0
    /\ creates' = 0
    /\ createLogs' = 0
    /\ dStatus' = FALSE
    /\ gitCmds' = 0
    /\ UNCHANGED <<lifeVars, ctxDone, dRun, dErr, waitCode, logger, gitPc,
                   script>>

\* The lifecycle of the overlay runner with Run() spelled out as RunDocker;
\* SIGHUP is handled, SIGINT and SIGTERM are not sent
DockerNext ==
    \/ IterCount
    \/ IterCheckExit
    \/ IterCheckReady
    \/ IterNext
    \/ IterCheckCtx
    \/ IterMakeRun
    \/ IterInsert
    \/ \E r \in Runs : GoBeforeRun(r)
    \/ \E r \in Runs : GoRunStart(r)
    \/ DkPullRepoFail
    \/ GitCreate
    \/ GitWrite
    \/ GitChmod
    \/ GitStart
    \/ GitWait
    \/ DkPullRepoDone
    \/ DkTempDir
    \/ DkMount
    \/ DkPullImage
    \/ DkCreate
    \/ DkStart
    \/ DkSupervise
    \/ DkUnmount
    \/ DkRemoveAll
    \/ DkExit
    \/ \E r \in Runs : GoRunReturn(r)
    \/ \E r \in Runs : GoAfterRun(r)
    \/ \E r \in Runs : GoGetCancel(r)
    \/ \E r \in Runs : GoSetStatus(r)
    \/ \E r \in Runs : GoDelete(r)
    \/ \E r \in Runs : GoHook(r)
    \/ \E r \in Runs : respondToCancelSignal(r)
    \/ SigHangup
    \/ \E r \in Runs : OperatorCancel(r)

DockerSpec == FairInit /\ [][DockerNext]_vars

\* The same with an asset service whose Write can return an error while the
\* run is under way
LoggerNext == DockerNext \/ LoggerFail

\* the goroutines of the overlay runner's lifecycle are scheduled: the loop,
\* each run goroutine, the RunDocker call inside it, each poller
DockerFairness ==
    /\ WF_vars(iterate)
    /\ WF_vars(RunDocker)
    /\ \A r \in Runs :
          WF_vars(GoBeforeRun(r) \/ GoRunStart(r) \/ GoRunReturn(r)
                    \/ GoAfterRun(r) \/ GoGetCancel(r) \/ GoSetStatus(r)
                    \/ GoDelete(r) \/ GoHook(r))
    /\ \A r \in Runs : WF_vars(respondToCancelSignal(r))

LoggerSpec == FairInit /\ [][LoggerNext]_vars /\ DockerFairness

\* The lifecycle of the overlay runner with queue items that carry a timeout
\* (lines 304-305: context.WithTimeout): the deadline of a run can pass at
\* any moment after its dequeue
DeadlineNext == Next \/ \E r \in Runs : Deadline(r)

DeadlineSpec == FairInit /\ [][DeadlineNext]_vars

\* The lifecycle of an executor whose Run leaves the cancel token of the run
\* alone (the k8s runner; the null runner's Run does the same), with queue
\* items without timeout; no signal is sent, runs may be cancelled at the
\* queue service
PollerNext ==
    \/ IterCount
    \/ IterCheckExit
    \/ IterCheckReady
    \/ IterNext
    \/ IterCheckCtx
    \/ IterMakeRun
    \/ IterInsert
    \/ \E r \in Runs : GoBeforeRun(r)
    \/ \E r \in Runs : GoRun(r)
    \/ \E r \in Runs : GoAfterRun(r)
    \/ \E r \in Runs : GoGetCancel(r)
    \/ \E r \in Runs : GoSetStatus(r)
    \/ \E r \in Runs : GoDelete(r)
    \/ \E r \in Runs : GoHook(r)
    \/ \E r \in Runs : respondToCancelSignal(r)
    \/ \E r \in Runs : OperatorCancel(r)

\* the k8s runner is the one launched
PollerInit == Init /\ runnerKind = "k8s"

PollerSpec == PollerInit /\ [][PollerNext]_vars /\ Fairness

\* The overlay runner with RunDocker spelled out, queue items that carry a
\* timeout and an asset service whose Write can fail; no signal is sent and
\* nobody cancels a run, so that the pollers never fire
TimeoutNext ==
    \/ IterCount
    \/ IterCheckExit
    \/ IterCheckReady
    \/ IterNext
    \/ IterCheckCtx
    \/ IterMakeRun
    \/ IterInsert
    \/ \E r \in Runs : GoBeforeRun(r)
    \/ \E r \in Runs : GoRunStart(r)
    \/ DkPullRepoFail
    \/ GitCreate
    \/ GitWrite
    \/ GitChmod
    \/ GitStart
    \/ GitWait
    \/ DkPullRepoDone
    \/ DkTempDir
    \/ DkMount
    \/ DkPullImage
    \/ DkCreate
    \/ DkStart
    \/ DkSupervise
    \/ DkUnmount
    \/ DkRemoveAll
    \/ DkExit
    \/ LoggerFail
    \/ \E r \in Runs : GoRunReturn(r)
    \/ \E r \in Runs : GoAfterRun(r)
    \/ \E r \in Runs : GoGetCancel(r)
    \/ \E r \in Runs : GoSetStatus(r)
    \/ \E r \in Runs : GoDelete(r)
    \/ \E r \in Runs : GoHook(r)
    \/ \E r \in Runs : Deadline(r)

TimeoutSpec == FairInit /\ [][TimeoutNext]_vars /\ DockerFairness

\* -------------------------------------------------- overlay runner: PullRepo
\* the characters of a cutset or prefix
CutSet(p) == {p[i] : i \in DOMAIN p}

\* strings.TrimLeft(s, cutset): s without its leading characters that are
\* contained in cutset
RECURSIVE TrimLeft(_, _)
TrimLeft(s, cut) ==
    IF s # <<>> /\ Head(s) \in cut THEN TrimLeft(Tail(s), cut) ELSE s

\* git.go 38 of the overlay runner:
\* strings.TrimLeft(strings.TrimLeft(RefName, "heads/"), "tags/")
DefaultBranchName(ref) ==
    TrimLeft(TrimLeft(ref, CutSet(HeadsPrefix)), CutSet(TagsPrefix))

\* strings.Contains(s, "..")
ContainsDotDot(s) == \E i \in 1..(Len(s) - 1) : s[i] = "." /\ s[i + 1] = "."

\* validateRepoName without its test for ".."
validateRepoNameSlashOnly(n) == Slashes(n) = 1

\* fw/git/git.go 120-130: validateRepoName returns nil
validateRepoName(n) == Slashes(n) = 1 /\ ~ContainsDotDot(n)

\* fw/git/git.go 113-114: strings.SplitN(name, "/", 2)[0]
SplitOwner(n) ==
    IF Slashes(n) = 0
    THEN n
    ELSE SubSeq(n, 1, (CHOOSE i \in DOMAIN n :
                          n[i] = "/" /\ \A j \in 1..(i - 1) : n[j] # "/") - 1)

\* fw/git/git.go 116: filepath.Join(config.BaseRepoPath, rm.RepoName), for a
\* name that Join has nothing to clean in
Join(base, n) == base \o <<"/">> \o n

\* DoNotMerge with merge_options.ignore_refs not looked at
DoNotMergeFlagOnly(it) == it.doNotMerge

\* git.go 51-60 of the overlay runner: doNotMerge, set as well when the head
\* ref name is one of merge_options.ignore_refs
DoNotMerge(it) == it.doNotMerge \/ it.headRef \in it.ignoreRefs

\* CloneOrFetch fetching origin before it checks the branch out
CloneOrFetchFetchFirst(dir) ==
    IF dir = "missing" THEN <<"mkdir", "clone">>
    ELSE IF dir = "file" THEN <<"rm", "mkdir", "clone">>
    ELSE <<"clean", "reset", "fetch origin", "checkout branch",
           "submodule update", "rebase">>

\* fw/git/git.go 184-222, CloneOrFetch, as the commands it has to run: for
\* a path os.Stat fails on, clone (MkdirAll, git clone); for a path that is
\* not a directory, os.Remove and clone; else reset (clean -fdx, reset
\* --hard), Checkout of the branch with its submodule update, fetch origin,
\* Rebase on origin/<branch>
CloneOrFetch(dir) ==
    IF dir = "missing" THEN <<"mkdir", "clone">>
    ELSE IF dir = "file" THEN <<"rm", "mkdir", "clone">>
    ELSE <<"clean", "reset", "checkout branch", "submodule update",
           "fetch origin", "rebase">>

\* the command sequences of CloneOrFetch: clone into a new directory
\* (188-191), the same after removing a file in its place (193-199), or
\* reset, check out and update the branch of an existing clone
CloneOrFetchCmds == {CloneOrFetch(dir) : dir \in RepoDirs}

\* the branch of "checkout branch" and "rebase": the parameter of
\* CloneOrFetch, for which PullRepo passes defaultBranchName (git.go 62 of
\* the overlay runner)
CofBranch == defaultBranch

\* fw/git/git.go 225-252, AddOrFetchFork: the fork is a remote already, or
\* is added as one
AddOrFetchForkCmds ==
    { <<"remote show", "fetch fork">>,
      <<"remote show", "remote add", "fetch fork">> }

\* fw/git/git.go 255-261, Checkout
CheckoutCmds == <<"checkout sha", "submodule update">>

\* fw/git/git.go 288, Merge
MergeCmds == <<"merge">>

\* the commands with a deferred rollback (Rebase 265-272, Merge 279-286)
RolledBack == {"rebase", "merge"}

\* the command of the rollback
Abort(c) == IF c = "merge" THEN "merge --abort" ELSE "rebase --abort"

\* everything outside the PullRepo call
repoRest == <<entryVars, loopVars, runnerKind, running, runCount, queueVars,
              runVars, sigVars, histVars, dockerVars, gitVars, fwVars>>

\* git.go 24-38 of the overlay runner: PullRepo is called for a queue item;
\* the token is parsed (an error returns), defaultBranchName is computed
PullRepoStart ==
    /\ Alive /\ rPc = "off"
    /\ sub' \in Items
    /\ \/ /\ rPc' = "Init"
          /\ defaultBranch' = DefaultBranchName(sub'.baseRef)
          /\ UNCHANGED rErr
       \/ /\ rPc' = "returned"
          /\ rErr' = "token"
          /\ UNCHANGED defaultBranch
    /\ UNCHANGED <<repoRest, noMerge, repoPath, forkRemote, todo, cmds>>

\* git.go 46-60 of the overlay runner and fw/git/git.go 71-118: rm.Init runs
\* systemInit (no $HOME: error; no ~/.gitconfig: two git config commands
\* whose errors are dropped), validates both names, computes ForkRemote and
\* RepoPath; then PullRepo computes doNotMerge and calls CloneOrFetch
PrInit ==
    /\ Alive /\ rPc = "Init"
    /\ IF ~sub.home
       THEN /\ rPc' = "returned"
            /\ rErr' = "init"
            /\ UNCHANGED <<noMerge, repoPath, forkRemote, todo, cmds>>
       ELSE /\ \E ok1, ok2 \in BOOLEAN :
                  cmds' = IF sub.gitconfig
                          THEN cmds
                          ELSE <<<<"config user.name", ok1>>,
                                 <<"config user.email", ok2>>>>
            /\ IF validateRepoName(sub.parent) /\ validateRepoName(sub.fork)
               THEN /\ forkRemote' = SplitOwner(sub.fork)
                    /\ repoPath' = Join(BaseRepoPath, sub.parent)
                    /\ noMerge' = DoNotMerge(sub)
                    /\ rPc' = "CloneOrFetch"
                    /\ todo' = CloneOrFetch(sub.repoDir)
                    /\ UNCHANGED rErr
               ELSE /\ rPc' = "returned"
                    /\ rErr' = "init"
                    /\ UNCHANGED <<noMerge, repoPath, forkRemote, todo>>
    /\ UNCHANGED <<repoRest, sub, defaultBranch>>

\* the method under way runs its next command; an error ends the method and
\* PullRepo (git.go 62-82), after the deferred rollback for rebase and merge
PrRun ==
    /\ Alive /\ rPc \in {"CloneOrFetch", "AddOrFetchFork", "Checkout", "Merge"}
    /\ todo # <<>>
    /\ \E ok \in BOOLEAN :
          /\ cmds' = Append(cmds, <<Head(todo), ok>>)
          /\ IF ok
             THEN /\ todo' = Tail(todo)
                  /\ UNCHANGED <<rPc, rErr>>
             ELSE /\ todo' = <<>>
                  /\ rErr' = Head(todo)
                  /\ rPc' = IF Head(todo) \in RolledBack
                            THEN "rollback" ELSE "returned"
    /\ UNCHANGED <<repoRest, sub, defaultBranch, noMerge, repoPath, forkRemote>>

\* PrRollback with the error of a failed abort returned in place of retErr
PrRollbackReturningAbortError ==
    /\ Alive /\ rPc = "rollback"
    /\ \E ok \in BOOLEAN :
          /\ cmds' = Append(cmds, <<Abort(rErr), ok>>)
          /\ rErr' = IF ok THEN rErr ELSE Abort(rErr)
    /\ rPc' = "returned"
    /\ UNCHANGED <<repoRest, sub, defaultBranch, noMerge, repoPath, forkRemote,
                   todo>>

\* fw/git/git.go 265-272 and 279-286: the deferred function of Rebase and
\* Merge runs the abort when retErr is not nil; an error of the abort is
\* written to the log, retErr is returned
PrRollback ==
    /\ Alive /\ rPc = "rollback"
    /\ \E ok \in BOOLEAN : cmds' = Append(cmds, <<Abort(rErr), ok>>)
    /\ rPc' = "returned"
    /\ UNCHANGED <<repoRest, sub, defaultBranch, noMerge, repoPath, forkRemote,
                   todo, rErr>>

\* git.go 62-84 of the overlay runner: the method under way returned nil;
\* PullRepo calls the next one, Merge unless doNotMerge, and returns
PrNextCall ==
    /\ Alive /\ rPc \in {"CloneOrFetch", "AddOrFetchFork", "Checkout", "Merge"}
    /\ todo = <<>>
    /\ \/ /\ rPc = "CloneOrFetch"
          /\ rPc' = "AddOrFetchFork"
          /\ todo' \in AddOrFetchForkCmds
       \/ /\ rPc = "AddOrFetchFork"
          /\ rPc' = "Checkout"
          /\ todo' = CheckoutCmds
       \/ /\ rPc = "Checkout" /\ ~noMerge
          /\ rPc' = "Merge"
          /\ todo' = MergeCmds
       \/ /\ rPc = "Checkout" /\ noMerge
          /\ rPc' = "returned"
          /\ UNCHANGED todo
       \/ /\ rPc = "Merge"
          /\ rPc' = "returned"
          /\ UNCHANGED todo
    /\ UNCHANGED <<repoRest, sub, defaultBranch, noMerge, repoPath, forkRemote,
                   cmds, rErr>>

\* PullRepo of the overlay runner for every queue item of Items
RepoNext ==
    \/ PullRepoStart
    \/ PrInit
    \/ PrRun
    \/ PrRollback
    \/ PrNextCall

RepoSpec == FairInit /\ [][RepoNext]_vars

\* ------------------------------------------------------------- fw/overlay
\* everything outside the overlay package
ovlRest == <<entryVars, loopVars, runnerKind, running, runCount, queueVars,
             runVars, sigVars, histVars, dockerVars, gitVars, repoVars,
             pullVars, k8sVars>>

\* filepath.IsAbs on Linux: the path starts with "/"
IsAbs(dir) == Len(dir) > 0 /\ dir[1] = "/"

\* validate with the loop running over Work, Upper and Target only
validateSkippingLower(m) ==
    LET dirs == <<m.Work, m.Upper, m.Target>>
        bad  == {i \in DOMAIN dirs :
                    ~IsAbs(dirs[i]) \/ ContainsDotDot(dirs[i])}
    IN  bad = {}

\* overlay.go 70-81, Mount.validate: the loop over Lower, Work, Upper and
\* Target returns an error at the first directory that is not absolute or
\* contains ".."; nil (TRUE here) when there is none
validate(m) ==
    LET dirs == <<m.Lower, m.Work, m.Upper, m.Target>>
        bad  == {i \in DOMAIN dirs :
                    ~IsAbs(dirs[i]) \/ ContainsDotDot(dirs[i])}
    IN  bad = {}

\* a caller fills in a Mount struct (overlay.go 63-68)
OvNew ==
    /\ Alive
    /\ ovl' \in Mounts
    /\ oOp' = "new"
    /\ oErr' = "none"
    /\ UNCHANGED <<ovlRest, mountTable>>

\* overlay.go 103-108, Mount: validate, then unix.Mount on m.Target, whose
\* error is returned
OvMount ==
    /\ Alive /\ ovl # NoMount
    /\ oOp' = "Mount"
    /\ IF ~validate(ovl)
       THEN oErr' = "invalid" /\ UNCHANGED mountTable
       ELSE \/ /\ mountTable' = mountTable \cup {ovl.Target}
               /\ oErr' = "none"
            \/ /\ oErr' = "syscall"
               /\ UNCHANGED mountTable
    /\ UNCHANGED <<ovlRest, ovl>>

\* overlay.go 95-100, Unmount: validate, then unix.Unmount of m.Target, which
\* can succeed only on a mounted target
OvUnmount ==
    /\ Alive /\ ovl # NoMount
    /\ oOp' = "Unmount"
    /\ IF ~validate(ovl)
       THEN oErr' = "invalid" /\ UNCHANGED mountTable
       ELSE \/ /\ ovl.Target \in mountTable
               /\ mountTable' = mountTable \ {ovl.Target}
               /\ oErr' = "none"
            \/ /\ oErr' = "syscall"
               /\ UNCHANGED mountTable
    /\ UNCHANGED <<ovlRest, ovl>>

OverlayNext == OvNew \/ OvMount \/ OvUnmount

\* Mount structs over every combination of Paths, with Mount and Unmount
\* called on them in any order
OverlaySpec == FairInit /\ [][OverlayNext]_vars

\* ------------------------------------------ overlay runner: outputPullRead
\* lines one outputPullRead call scans
MaxLines == 3

\* everything outside outputPullRead
pullRest == <<entryVars, loopVars, runnerKind, running, runCount, queueVars,
              runVars, sigVars, histVars, dockerVars, gitVars, repoVars,
              ovlVars, k8sVars>>

\* docker.go 283-295, the result of processLine: true ("continue") unless
\* the status is a non-empty string that is "Pull complete" or "Downloading"
processLineSkips(m) == m.status \notin {"Pull complete", "Downloading"}

\* idMap[id] = pair
SetPair(ids, id, pair) ==
    [l \in DOMAIN ids \cup {id} |-> IF l = id THEN pair ELSE ids[l]]

\* processLine with "Pull complete" repeating the recorded current
processLineKeepingCurrent(m, ids) ==
    IF processLineSkips(m) \/ m.id \in {"", NoField}
    THEN ids
    ELSE IF m.status = "Pull complete"
         THEN IF m.id \in DOMAIN ids
              THEN SetPair(ids, m.id, <<ids[m.id][1], ids[m.id][1]>>)
              ELSE SetPair(ids, m.id, <<1, 1>>)
         ELSE IF m.progressDetail.ok /\ m.progressDetail.len # 0
              THEN SetPair(ids, m.id, <<m.progressDetail.current,
                                        m.progressDetail.total>>)
              ELSE ids

\* docker.go 297-312, what processLine makes of idMap: for a non-empty
\* string id, "Pull complete" stores the recorded total twice, or 1 and 1
\* for an id not in the map; "Downloading" with a progressDetail that is a
\* non-empty map stores its current and total
processLine(m, ids) ==
    IF processLineSkips(m) \/ m.id \in {"", NoField}
    THEN ids
    ELSE IF m.status = "Pull complete"
         THEN IF m.id \in DOMAIN ids
              THEN SetPair(ids, m.id, <<ids[m.id][2], ids[m.id][2]>>)
              ELSE SetPair(ids, m.id, <<1, 1>>)
         ELSE IF m.progressDetail.ok /\ m.progressDetail.len # 0
              THEN SetPair(ids, m.id, <<m.progressDetail.current,
                                        m.progressDetail.total>>)
              ELSE ids

\* docker.go 333-337: for _, val := range idMap { cur += val[0]; sum += val[1] }
RECURSIVE SumOf(_, _, _)
SumOf(ids, S, k) ==
    IF S = {} THEN 0
    ELSE LET l == CHOOSE x \in S : TRUE
         IN  ids[l][k] + SumOf(ids, S \ {l}, k)

\* docker.go 315-322: outputPullRead starts with an empty idMap
OprStart ==
    /\ Alive /\ pPc = "off"
    /\ pPc' = "scan"
    /\ UNCHANGED <<pullRest, idMap, line, scanned, rendered>>

\* docker.go 323-346, one iteration of the loop on a line that is JSON:
\* processLine, then the percentage when the line is not skipped and the
\* sum of the totals is not 0
OprLine ==
    /\ Alive /\ pPc = "scan" /\ scanned < MaxLines
    /\ scanned' = scanned + 1
    /\ line' \in Lines
    /\ idMap' = processLine(line', idMap)
    /\ LET curSum == SumOf(idMap', DOMAIN idMap', 1)
           sum    == SumOf(idMap', DOMAIN idMap', 2)
       IN  rendered' = IF ~processLineSkips(line') /\ sum # 0
                       THEN Append(rendered, <<curSum, sum>>)
                       ELSE rendered
    /\ UNCHANGED <<pullRest, pPc>>

\* docker.go 325-327: a line that is not JSON ends the call with the error
OprBadLine ==
    /\ Alive /\ pPc = "scan" /\ scanned < MaxLines
    /\ scanned' = scanned + 1
    /\ pPc' = "returned"
    /\ UNCHANGED <<pullRest, idMap, line, rendered>>

\* docker.go 323 and 348: the stream ends, return nil
OprEof ==
    /\ Alive /\ pPc = "scan"
    /\ pPc' = "returned"
    /\ UNCHANGED <<pullRest, idMap, line, scanned, rendered>>

PullNext == OprStart \/ OprLine \/ OprBadLine \/ OprEof

\* one outputPullRead call over every stream of at most MaxLines lines
PullSpec == FairInit /\ [][PullNext]_vars

\* ------------------------------------------------------ k8s runner: Run.Run
\* everything outside the Run call of the k8s runner
k8sRest == <<entryVars, loopVars, runnerKind, running, runCount, queueVars,
             runVars, sigVars, histVars, dockerVars, gitVars, repoVars,
             ovlVars, pullVars>>

\* Run returns (st, e)
KReturn(st, e) == kRes' = [status |-> st, err |-> e]

\* run.go 136-188: the names, makeResources (its error returns), the specs
\* of the Secret and the CIJob, SchemeClient (its error returns)
KStart ==
    /\ Alive /\ kPc = "off"
    /\ \/ /\ kPc' = "createSecret"
          /\ UNCHANGED kRes
       \/ /\ \E e \in {"resources", "client"} : KReturn(FALSE, e)
          /\ kPc' = "returned"
    /\ UNCHANGED <<k8sRest, kCtx, secret, job, deletes, logCopy, copies, polled>>

\* run.go 190-192: c.Create(r.ctx, secret)
KCreateSecret ==
    /\ Alive /\ kPc = "createSecret"
    /\ \/ /\ secret' = "created"
          /\ kPc' = "createJob"
          /\ UNCHANGED kRes
       \/ /\ KReturn(FALSE, "createSecret")
          /\ kPc' = "returned"
          /\ UNCHANGED secret
    /\ UNCHANGED <<k8sRest, kCtx, job, deletes, logCopy, copies, polled>>

\* run.go 194-204: c.Create(r.ctx, job); on an error Run returns; on
\* success the cleanup is deferred and the loop begins
KCreateJob ==
    /\ Alive /\ kPc = "createJob"
    /\ \/ /\ job' = "created"
          /\ kPc' = "loop"
          /\ UNCHANGED kRes
       \/ /\ KReturn(FALSE, "createJob")
          /\ kPc' = "returned"
          /\ UNCHANGED job
    /\ UNCHANGED <<k8sRest, kCtx, secret, deletes, logCopy, copies, polled>>

\* run.go 208-214: select on r.runCtx.Ctx.Done(): return false, nil; else
\* sleep a second and poll
KSelect ==
    /\ Alive /\ kPc = "loop"
    /\ IF kCtx
       THEN KReturn(FALSE, "none") /\ kPc' = "cleanClient"
       ELSE UNCHANGED kRes /\ kPc' = "get"
    /\ UNCHANGED <<k8sRest, kCtx, secret, job, deletes, logCopy, copies, polled>>

\* KGet with logCopy never set
KGetCopyingEveryPoll ==
    /\ Alive /\ kPc = "get"
    /\ \/ /\ KReturn(FALSE, "get")
          /\ kPc' = "cleanClient"
          /\ UNCHANGED <<logCopy, copies, polled>>
       \/ /\ polled' \in JobStatuses
          /\ IF ~polled'.PodName /\ ~polled'.Canceled /\ ~polled'.Finished
             THEN /\ kPc' = "loop"
                  /\ UNCHANGED <<logCopy, copies, kRes>>
             ELSE /\ IF polled'.PodName /\ ~logCopy
                     THEN UNCHANGED logCopy /\ copies' = copies + 1
                     ELSE UNCHANGED <<logCopy, copies>>
                  /\ IF polled'.Finished
                     THEN KReturn(polled'.Success, "none") /\ kPc' = "cleanClient"
                     ELSE UNCHANGED kRes /\ kPc' = "loop"
    /\ UNCHANGED <<k8sRest, kCtx, secret, job, deletes>>

\* run.go 216-234: c.Get of the CIJob (its error returns); nothing to do
\* while the job has no pod and is neither canceled nor finished; the first
\* poll that sees a pod starts copyLog; a finished job returns its Success
KGet ==
    /\ Alive /\ kPc = "get"
    /\ \/ /\ KReturn(FALSE, "get")
          /\ kPc' = "cleanClient"
          /\ UNCHANGED <<logCopy, copies, polled>>
       \/ /\ polled' \in JobStatuses
          /\ IF ~polled'.PodName /\ ~polled'.Canceled /\ ~polled'.Finished
             THEN /\ kPc' = "loop"
                  /\ UNCHANGED <<logCopy, copies, kRes>>
             ELSE /\ IF polled'.PodName /\ ~logCopy
                     THEN logCopy' = TRUE /\ copies' = copies + 1
                     ELSE UNCHANGED <<logCopy, copies>>
                  /\ IF polled'.Finished
                     THEN KReturn(polled'.Success, "none") /\ kPc' = "cleanClient"
                     ELSE UNCHANGED kRes /\ kPc' = "loop"
    /\ UNCHANGED <<k8sRest, kCtx, secret, job, deletes>>

\* run.go 108-114, the deferred cleanup: SchemeClient; its error ends the
\* cleanup (the error is logged by the defer, 200-204)
KCleanClient ==
    /\ Alive /\ kPc = "cleanClient"
    /\ kPc' \in {"cleanGet", "returned"}
    /\ UNCHANGED <<k8sRest, kCtx, secret, job, deletes, logCopy, copies, polled,
                   kRes>>

\* run.go 119-121: c.Get(ctx, jobName, job); the CIJob is deleted only when
\* the Get returned no error
KCleanGet ==
    /\ Alive /\ kPc = "cleanGet"
    /\ kPc' \in {"deleteJob", "deleteSecret"}
    /\ UNCHANGED <<k8sRest, kCtx, secret, job, deletes, logCopy, copies, polled,
                   kRes>>

\* run.go 122-124: c.Delete(ctx, job); its error ends the cleanup
KDeleteJob ==
    /\ Alive /\ kPc = "deleteJob"
    /\ deletes' = deletes \cup {"job"}
    /\ \/ job' = "deleted" /\ kPc' = "deleteSecret"
       \/ UNCHANGED job /\ kPc' = "returned"
    /\ UNCHANGED <<k8sRest, kCtx, secret, logCopy, copies, polled, kRes>>

\* run.go 127-131: c.Delete(ctx, secret)
KDeleteSecret ==
    /\ Alive /\ kPc = "deleteSecret"
    /\ deletes' = deletes \cup {"secret"}
    /\ secret' \in {"deleted", secret}
    /\ kPc' = "returned"
    /\ UNCHANGED <<k8sRest, kCtx, job, logCopy, copies, polled, kRes>>

\* the cancel token of the run is fired (by a poller, or by its deadline)
\* while Run is under way
KCancel ==
    /\ Alive /\ kPc \notin {"off", "returned"} /\ ~kCtx
    /\ kCtx' = TRUE
    /\ UNCHANGED <<k8sRest, kPc, secret, job, deletes, logCopy, copies, polled,
                   kRes>>

K8sNext ==
    \/ KStart \/ KCreateSecret \/ KCreateJob \/ KSelect \/ KGet
    \/ KCleanClient \/ KCleanGet \/ KDeleteJob \/ KDeleteSecret \/ KCancel

\* one Run call of the k8s runner with every answer of the cluster
K8sSpec == FairInit /\ [][K8sNext]_vars

\* The lifecycle with every executor configuration, the Kubernetes runner
\* with its default max_concurrency included
CapInit == Booted /\ runnerKind \in CapKinds

CapSpec == CapInit /\ [][Next]_vars

\* ------------------------------------------------------------------ claims
Rank(ev) ==
    CASE ev = "BeforeRun" -> 1
      [] ev = "Run"       -> 2
      [] ev = "AfterRun"  -> 3
      [] ev = "Report"    -> 4
      [] ev = "Remove"    -> 5

FullLifecycle == <<"BeforeRun", "Run", "AfterRun", "Report", "Remove">>

\* C1: the lifecycle events of one run happen in the order BeforeRun, Run,
\* AfterRun, status reporting, removal from e.runMap: in the history of every
\* run an event is never followed by an event of the same or an earlier rank.
C1_LifecycleOrder ==
    \A r \in Runs :
        \A i, j \in DOMAIN events[r] :
            i < j => Rank(events[r][i]) < Rank(events[r][j])

\* a run went through all five events while the other run was under way
C1_Witness ==
    \E r, q \in Runs :
        /\ r # q
        /\ events[r] = FullLifecycle
        /\ rpc[q] \in {"Run", "AfterRun", "GetCancel", "SetStatus"}

\* a run is in flight from the creation of its Run handle by MakeRun until
\* its finalizer (the deferred function) has run to its end
InFlight(r) ==
    \/ cur = r /\ loopPc = "insert"
    \/ rpc[r] \notin {"idle", "done"}

\* C2: e.runMap is empty exactly when no run is in flight.
C2_RunMapEmptyIffIdle ==
    (runMap = {}) <=> (\A r \in Runs : ~InFlight(r))

\* C3: for every run SetStatus is answered ok at most once and SetCancel is
\* answered ok at most once: no SetStatus call is made for a run after one
\* was answered ok, and no SetCancel call after one was answered ok.
C3_AtMostOnce ==
    [][\A r \in Runs :
          /\ (rpc[r] = "SetStatus" /\ rpc'[r] # "SetStatus") => ~setStatusOk[r]
          /\ (cancelPc[r] = "SetCancel" /\ cancelPc'[r] # "SetCancel")
                => ~setCancelOk[r]]_vars

\* the step in which the loop makes its NextQueueItem call
NextQueueItemCall == loopPc = "next" /\ loopPc' # "next"

\* C4 as stated: once terminate is set the loop makes no NextQueueItem call.
C4_NoDequeueAfterTerminate ==
    [][NextQueueItemCall => ~terminate]_vars

\* C4 as amended: once terminate is set the loop never again arrives at the
\* NextQueueItem call; the only call that can follow is the one of an
\* iteration that had passed the test of line 272 before the flag was set.
C4_NoNewDequeueAfterTerminate ==
    [][(terminate /\ loopPc # "next") => loopPc' # "next"]_vars

\* SIGHUP was handled while the loop stood between line 272 and line 277
C4_Witness ==
    terminate /\ loopPc = "next" /\ Alive /\ sigPc = "recv"

\* C5: the graceful os.Exit(0) of line 269 happens only when terminate is
\* set, e.runMap is empty and every run dequeued so far was removed from it.
C5_GracefulExitOnlyWhenIdle ==
    exited = "graceful" =>
        /\ terminate
        /\ runMap = {}
        /\ cur = 0
        /\ \A r \in Runs : r < nextId => rpc[r] \in {"Hook", "done"}

\* the loop left through line 269 after it had dispatched a run
C5_Witness ==
    exited = "graceful" /\ nextId > 1

\* C6: after SIGHUP set terminate, if the finalizers of the runs complete
\* (e.runMap ends up empty for good), the process eventually exits; both
\* exits of the program are os.Exit(0).
C6_HangupLeadsToExit ==
    (<>[](runMap = {})) => (terminate ~> (exited # "no"))

\* terminate was set with run 1 under way, run 1 was finalized and the loop
\* left through line 269
C6_Witness ==
    /\ exited = "graceful"
    /\ events[1] = FullLifecycle
    /\ rpc[1] = "done"

\* the step in which the signal goroutine handles SIGHUP: the only step that
\* sets terminate while the lifetime context is not cancelled
HangupStep == ~terminate /\ terminate' /\ ~lifetimeDone

\* C7: handling SIGHUP changes e.terminate and nothing else: no cancel token
\* fires, no SetCancel is called, no run changes its position; and the
\* status the queue service records for a run is the one run.Run() returned.
C7_HangupOnlySetsTerminate ==
    /\ [][HangupStep =>
            UNCHANGED <<runMap, runMapMutex, lifetimeDone, exited, loopVars,
                        execVars, queueVars, runVars, sigVars, histVars>>]_vars
    /\ [](\A r \in Runs :
            qStatus[r] # "unset" =>
                qStatus[r] = (IF status[r] THEN "pass" ELSE "fail"))

\* SIGHUP was handled while a run was inside run.Run(), and its token has not
\* fired and nobody cancelled it
C7_Witness ==
    /\ terminate /\ sigPc = "recv" /\ Alive
    /\ \E r \in Runs : rpc[r] = "Run" /\ ctxDone[r] = "no" /\ ~qCancel[r]

\* C8: when the SIGINT/SIGTERM handler exits the process, every run of
\* e.runMap (the map is frozen from the moment the handler takes the lock)
\* is cancelled at the queue service and its cancel token has fired.
C8_DrainCancelsAndFires ==
    exited = "hardstop" =>
        \A r \in runMap : qCancel[r] /\ ctxDone[r] # "no"

\* C9: while the SIGINT/SIGTERM handler holds the lock (the drain), the loop
\* makes no NextQueueItem call and creates no Run handle.
C9_NoDequeueDuringDrain ==
    [][runMapMutex =>
          /\ ~NextQueueItemCall
          /\ ~(loopPc = "makeRun" /\ loopPc' # "makeRun")]_vars

\* C10: once the SIGINT/SIGTERM handler has started, the process eventually
\* exits, whatever the queue service answers.
C10_InterruptLeadsToExit ==
    (sigPc # "recv") ~> (exited # "no")

\* C11: when the finalizer polls the cancel state of a run whose context
\* ended by its deadline and the queue's cancel state is false, it does not
\* go on to SetStatus (it reports SetCancel instead).
C11_DeadlineReportsCancel ==
    [][\A r \in Runs :
          (rpc[r] = "GetCancel" /\ ctxDone[r] = "deadline" /\ ~qCancel[r])
             => rpc'[r] # "SetStatus"]_vars

\* C12: once the queue's cancel state of a run is true the finalizer never
\* arrives at a SetStatus call for it: a poll of normalRetry that finds the
\* state true ends the goroutine without SetStatus.
C12_CancelledSkipsSetStatus ==
    [][\A r \in Runs :
          (qCancel[r] /\ rpc[r] # "SetStatus") => rpc'[r] # "SetStatus"]_vars

\* a cancelled run went through its whole lifecycle and no status was
\* recorded for it
C12_Witness ==
    \E r \in Runs :
        /\ qCancel[r] /\ rpc[r] = "done"
        /\ events[r] = FullLifecycle
        /\ qStatus[r] = "unset"

\* C13: for a run of e.runMap whose cancel state at the queue service has
\* become true while its token is not done, the poller eventually fires the
\* token (or the run is finalized first).
C13_CancelLeadsToFire ==
    \A r \in Runs :
        (r \in runMap /\ qCancel[r] /\ ctxDone[r] = "no")
            ~> (ctxDone[r] # "no" \/ r \notin runMap)

\* C14: the cancel token of a run is fired by the poller only on a poll that
\* returned true, that is only while the queue's cancel state of the run is
\* true; a failed poll leaves the token alone and the poller polling.
C14_FireOnlyOnTrue ==
    /\ [][\A r \in Runs :
            (ctxDone[r] = "no" /\ ctxDone'[r] = "canceled") => qCancel[r]]_vars
    /\ [](\A r \in Runs :
            (Alive /\ rpc[r] # "idle" /\ ctxDone[r] = "no" /\ qCancel[r])
                => ENABLED respondToCancelSignal(r))

\* the poller fired the token of a run that is inside run.Run()
C14_Witness ==
    \E r \in Runs : ctxDone[r] = "canceled" /\ qCancel[r] /\ rpc[r] = "Run"

\* a run is dispatched from its dequeue until its finalizer has run
Dispatched(r) == cur = r \/ rpc[r] \notin {"idle", "done"}

\* C15: the number of runs between dequeue and the end of their finalizer
\* never exceeds the cap of the executor: 1 for the overlay runner,
\* max_concurrency for the Kubernetes runner.
C15_CapRespected ==
    Cardinality({r \in Runs : Dispatched(r)}) <= Cap

\* the Kubernetes runner with the default max_concurrency holds the loop back
\* while a run is under way and the queue has another item
C15_Witness ==
    /\ runnerKind = "k8s-default" /\ ~Ready
    /\ loopPc = "chkReady" /\ ~terminate /\ nextId <= MaxRuns

\* a step in which SetStatus failed and the finalizer went back to normalRetry
SetStatusRetry(r) == rpc[r] = "SetStatus" /\ rpc'[r] = "GetCancel"

\* C16: a run that reached status reporting leaves normalRetry with its
\* status recorded or its cancellation known, provided the SetStatus calls
\* eventually stop failing: every failed call is retried, and the answer
\* "status already set for run" ends the loop.
C16_ReportEventuallySucceeds ==
    \A r \in Runs :
        (<>[][~SetStatusRetry(r)]_vars) =>
            ((rpc[r] = "GetCancel")
                ~> ( \/ /\ rpc[r] \in {"Delete", "Hook", "done"}
                        /\ (qStatus[r] # "unset" \/ qCancel[r])
                     \/ exited # "no" ))

\* the answer to a first SetStatus was lost, the retry was answered "status
\* already set for run", and the run was finalized
C16_Witness ==
    \E r \in Runs :
        /\ rpc[r] = "done" /\ ~qCancel[r]
        /\ qStatus[r] # "unset" /\ ~setStatusOk[r]

\* C17: when RunDocker returns after it created the overlay mount of the run,
\* the mount was unmounted by exactly one successful Unmount and the work,
\* upper and target directories are removed.
C17_MountCleanedUp ==
    (dPc = "returned" /\ (mounted \/ unmounts > 0))
        => (~mounted /\ unmounts = 1 /\ tmpDirs = {})

\* C18: outside a RepoManager.Run call (before it, and after it returned on
\* any path) the login script does not exist.
C18_ScriptOnlyDuringRun ==
    gitPc = "idle" => ~script

\* C19: the reference pullImage hands to ImagePull is the resolved one:
\* docker.io/library/<ref> for a ref without "/", docker.io/<ref> for a ref
\* with one "/", the ref itself otherwise.
C19_ImageResolved ==
    pulled # <<>> => pulled = ResolveImage(image)

\* the status the queue service holds for what run.Run() returned for run r
Reported(r) == IF status[r] THEN "pass" ELSE "fail"

\* the run goroutine of run r is past normalRetry
Finalized(r) == rpc[r] \in {"Delete", "Hook", "done"}

\* C20: when RunDocker returns the error of a setup step (git, overlay
\* mount, image pull, container create), the run goroutine gets status
\* false and goes on to AfterRun, the loop, e.terminate and e.runMap are
\* left alone, the status is never changed afterwards, and the run leaves
\* normalRetry only with "fail" recorded at the queue service or with its
\* cancel known there.
C20_SetupErrorIsFail ==
    /\ [][\A r \in Runs :
            (rpc[r] = "Run" /\ rpc'[r] # "Run" /\ dErr # "none")
                => /\ status'[r] = FALSE
                   /\ rpc'[r] = "AfterRun"
                   /\ UNCHANGED <<terminate, exited, loopVars, runMap>>]_vars
    /\ [][\A r \in Runs : status'[r] # status[r] => rpc[r] = "Run"]_vars
    /\ [](\A r \in Runs :
            (Finalized(r) /\ dRun = r /\ dErr # "none")
                => (qStatus[r] = "fail" \/ qCancel[r]))

\* a run whose image pull failed was reported as failed, nobody having
\* cancelled it, and was finalized, and the loop dequeued the next item
C20_Witness ==
    /\ dRun = 1 /\ dErr = "pull" /\ rpc[1] = "done"
    /\ qStatus[1] = "fail" /\ ~qCancel[1]
    /\ nextId > 2

\* RunDocker is past its last step and has its return values
Decided == dPc \in {"Unmount", "RemoveAll", "exit", "returned"}

\* C21: RunDocker returns true exactly when ContainerWait answered status
\* code 0: a non-zero code gives (false, nil), an error of the wait gives
\* false with the error, and SetStatus(id, true) is only recorded for the
\* run whose container exited with code 0.
C21_PassIffExitZero ==
    /\ [](Decided => (dStatus <=> (waitCode = 0 /\ dErr = "none")))
    /\ [](waitCode \in ExitCodes => dErr = "none")
    /\ [](dErr = "wait" => (waitCode = NoCode /\ ~dStatus))
    /\ [][\A r \in Runs :
            (qStatus[r] # "pass" /\ qStatus'[r] = "pass")
                => (dRun = r /\ waitCode = 0)]_vars

\* run 1 passed with exit code 0 and run 2, whose container exited with code
\* 2 and no error, was recorded as failed
C21_Witness ==
    /\ qStatus[1] = "pass" /\ qStatus[2] = "fail"
    /\ dRun = 2 /\ waitCode = 2 /\ dErr = "none"

\* C22: boot attempts ContainerCreate at most CreateRetries (5) times and
\* only while every earlier attempt failed; it goes on to attach and start
\* exactly after a successful attempt, then with k + 1 attempts and k retry
\* log lines for k < 5 failures; after 5 failed attempts it leaves with the
\* create error (or stays in the write of that error to the log pipe) and
\* the container is neither attached nor started.
C22_CreateRetries ==
    /\ [](creates <= CreateRetries /\ createLogs <= creates)
    /\ [][creates' > creates
            => (dPc = "boot" /\ createLogs = creates /\ creates' = creates + 1)]_vars
    /\ [][(dPc = "boot" /\ dPc' = "start")
            => (creates' = createLogs' + 1 /\ createLogs' < CreateRetries
                /\ dErr' = "none")]_vars
    /\ [][(dPc = "boot" /\ dPc' \notin {"boot", "start"})
            => /\ creates' = CreateRetries /\ createLogs' = CreateRetries
               /\ \/ dPc' = "Unmount" /\ dErr' = "create" /\ ~dStatus'
                  \/ dPc' = "blocked"]_vars
    /\ [][(dPc' \in {"start", "supervise"} /\ dPc # dPc')
            => dPc \in {"boot", "start"}]_vars

\* the fourth attempt succeeded after three failures: three retry lines and
\* the container about to be attached and started
C22_Witness ==
    dPc = "start" /\ creates = 4 /\ createLogs = 3

\* C23: a run whose asset write returned an error while RunDocker was under
\* way still gets to the end of RunDocker: Run() returns to the run
\* goroutine.
C23_RunSurvivesAssetError ==
    \A r \in Runs :
        (rpc[r] = "Run" /\ dRun = r /\ logger = "failed") ~> (rpc[r] # "Run")

\* C24: a run whose deadline passes while its Run() is under way is
\* eventually finalized: its goroutine is past normalRetry with a status or a
\* cancel recorded at the queue service and the run is out of e.runMap
\* (unless the process exits first), provided that the queue service stops
\* answering SetStatus with errors.
C24_TimedRunFinalized ==
    \A r \in Runs :
        (<>[][~SetStatusRetry(r)]_vars)
            => ((rpc[r] = "Run" /\ ctxDone[r] = "deadline")
                    ~> \/ /\ r \notin runMap
                          /\ rpc[r] \in {"Hook", "done"}
                          /\ (qStatus[r] # "unset" \/ qCancel[r])
                       \/ exited # "no")

\* PullRepo has run command c
Ran(c) == \E i \in DOMAIN cmds : cmds[i][1] = c

\* merge_options allow the merge for the item
MergeWanted == ~sub.doNotMerge /\ sub.headRef \notin sub.ignoreRefs

\* C25: PullRepo runs git merge only when do_not_merge is false and the head
\* ref name is not in ignore_refs; a PullRepo that returned nil ran it exactly
\* in that case, and otherwise ended with the checkout of the head sha (and
\* its submodule update) as its last commands.
C25_MergeIffWanted ==
    /\ Ran("merge") => MergeWanted
    /\ (rPc = "returned" /\ rErr = "none") => (Ran("merge") <=> MergeWanted)
    /\ (rPc = "returned" /\ rErr = "none" /\ ~MergeWanted)
          => /\ Len(cmds) >= 2
             /\ cmds[Len(cmds) - 1] = <<"checkout sha", TRUE>>
             /\ cmds[Len(cmds)] = <<"submodule update", TRUE>>
    /\ (rPc = "returned" /\ rErr = "none" /\ MergeWanted)
          => cmds[Len(cmds)] = <<"merge", TRUE>>

\* PullRepo returned nil without a merge for a head ref that is listed in
\* ignore_refs, do_not_merge being false
C25_Witness ==
    /\ rPc = "returned" /\ rErr = "none"
    /\ ~sub.doNotMerge /\ sub.headRef \in sub.ignoreRefs
    /\ ~Ran("merge")

\* s starts with p
HasPrefix(s, p) == Len(s) >= Len(p) /\ SubSeq(s, 1, Len(p)) = p

\* ref without a leading "heads/" or "tags/", every other character kept
StripRefPrefix(ref) ==
    IF HasPrefix(ref, HeadsPrefix)
    THEN SubSeq(ref, Len(HeadsPrefix) + 1, Len(ref))
    ELSE IF HasPrefix(ref, TagsPrefix)
         THEN SubSeq(ref, Len(TagsPrefix) + 1, Len(ref))
         ELSE ref

\* C26: the default branch PullRepo computes is the base ref name without
\* its leading "heads/" or "tags/" (heads/staging gives staging, tags/v1
\* gives v1).
C26_DefaultBranchIsRefSansPrefix ==
    rPc \in {"Init", "CloneOrFetch", "AddOrFetchFork", "Checkout", "Merge"}
        => defaultBranch = StripRefPrefix(sub.baseRef)

\* the names of ParentNames and ForkNames with exactly one "/" and no "..":
\* o/r and f/r
WellFormed == {<<"o", "/", "r">>, <<"f", "/", "r">>}

\* rm.Init has returned nil
InitDone == rPc \in {"CloneOrFetch", "AddOrFetchFork", "Checkout", "Merge",
                     "rollback"}
            \/ (rPc = "returned" /\ rErr \notin {"token", "init"})

\* rm.Init has returned an error
InitFailed == rPc = "returned" /\ rErr = "init"

\* the commands systemInit runs when ~/.gitconfig is missing
ConfigCmds == {"config user.name", "config user.email"}

\* C27 as stated: Init returns nil only for two well-formed names, then with
\* RepoPath = BaseRepoPath/<parent> and ForkRemote = the fork's owner; and
\* when it returns an error no git command has been run.
C27_InitValidatesNoCommand ==
    /\ InitDone => /\ sub.parent \in WellFormed /\ sub.fork \in WellFormed
                   /\ repoPath = <<"/", "b", "/">> \o sub.parent
                   /\ forkRemote = <<sub.fork[1]>>
    /\ (InitDone \/ InitFailed)
          => (InitFailed <=> (~sub.home \/ sub.parent \notin WellFormed
                                \/ sub.fork \notin WellFormed))
    /\ InitFailed => cmds = <<>>

\* C27, amended: the same, but when Init returns an error the only commands
\* run are the git config commands of systemInit: no command has been run on
\* a repository.
C27_InitValidates ==
    /\ InitDone => /\ sub.parent \in WellFormed /\ sub.fork \in WellFormed
                   /\ repoPath = <<"/", "b", "/">> \o sub.parent
                   /\ forkRemote = <<sub.fork[1]>>
    /\ (InitDone \/ InitFailed)
          => (InitFailed <=> (~sub.home \/ sub.parent \notin WellFormed
                                \/ sub.fork \notin WellFormed))
    /\ InitFailed => \A i \in DOMAIN cmds : cmds[i][1] \in ConfigCmds
    /\ (InitFailed /\ (sub.gitconfig \/ ~sub.home)) => cmds = <<>>

\* Init refused the fork name f../r of a well-formed parent on a machine
\* without ~/.gitconfig, after systemInit ran its two git config commands
C27_Witness ==
    /\ InitFailed /\ sub.home /\ ~sub.gitconfig
    /\ sub.parent \in WellFormed
    /\ sub.fork = <<"f", ".", ".", "/", "r">>
    /\ Len(cmds) = 2

\* how often PullRepo has run command c
NumRan(c) == Cardinality({i \in DOMAIN cmds : cmds[i][1] = c})

\* command c has been run and failed
Failed(c) == \E i \in DOMAIN cmds : cmds[i] = <<c, FALSE>>

\* C28: when PullRepo has returned after a failed git merge (git rebase),
\* merge --abort (rebase --abort) was run exactly once, right after the
\* failed command and as the last command, and the error returned is the
\* one of the merge (rebase), whether or not the abort succeeded; without a
\* failed merge (rebase) its abort is never run.
C28_RollbackKeepsError ==
    \A c \in RolledBack :
        /\ (rPc = "returned" /\ Failed(c))
              => /\ NumRan(Abort(c)) = 1
                 /\ rErr = c
                 /\ cmds[Len(cmds)][1] = Abort(c)
                 /\ cmds[Len(cmds) - 1] = <<c, FALSE>>
        /\ ~Failed(c) => NumRan(Abort(c)) = 0
        /\ NumRan(Abort(c)) <= 1

\* PullRepo returned the merge error after a merge --abort that failed too
C28_Witness ==
    /\ rPc = "returned" /\ rErr = "merge"
    /\ cmds[Len(cmds)] = <<"merge --abort", FALSE>>

\* the event histories of a run goroutine that ran to its end: BeforeRun
\* failed; the run was cancelled (nothing reported); the full lifecycle
EndedLifecycles ==
    { <<"BeforeRun", "Remove">>,
      <<"BeforeRun", "Run", "AfterRun", "Remove">>,
      FullLifecycle }

\* the step of run r's goroutine that calls the executor's AfterRun hook
HookStep(r) == rpc[r] = "Hook" /\ rpc'[r] = "done"

\* C29: the finalizer of the run goroutine runs on every path: the
\* goroutine ends only through the removal of the run from e.runMap followed
\* by one call of the executor's AfterRun hook, also when BeforeRun returned
\* an error (then with Run and AfterRun of the run skipped); the hook is
\* called by nobody else and lowers the executor's load, so that with no run
\* in flight the executor is Ready; and a started run goroutine does reach
\* its end unless the process exits, a SIGINT or SIGTERM shutdown holds
\* e.runMapMutex, or SetStatus keeps failing.
C29_FinalizerAlwaysRuns ==
    /\ [][\A r \in Runs :
            (rpc[r] # "done" /\ rpc'[r] = "done")
                => (rpc[r] = "Hook" /\ r \notin runMap /\ ~running')]_vars
    /\ [][\A r \in Runs :
            (rpc[r] # "Hook" /\ rpc'[r] = "Hook")
                => (rpc[r] = "Delete" /\ r \in runMap /\ r \notin runMap')]_vars
    /\ [][\A r \in Runs : rpc[r] = "done" => rpc'[r] = "done"]_vars
    /\ [][\A r \in Runs :
            (rpc[r] = "BeforeRun" /\ rpc'[r] \notin {"BeforeRun", "Run"})
                => rpc'[r] = "Delete"]_vars
    /\ [][(running /\ ~running') => \E r \in Runs : HookStep(r)]_vars
    /\ [](\A r \in Runs : rpc[r] = "done" => events[r] \in EndedLifecycles)
    /\ []((\A r \in Runs : ~InFlight(r)) => Ready)
    /\ \A r \in Runs :
          (<>[][~SetStatusRetry(r)]_vars)
              => (rpc[r] = "BeforeRun"
                    ~> (rpc[r] = "done" \/ exited # "no" \/ sigPc # "recv"))

\* the goroutine of a run whose BeforeRun failed has ended: the run is out
\* of e.runMap, neither Run nor AfterRun was called, the executor is Ready
C29_Witness ==
    \E r \in Runs :
        /\ rpc[r] = "done" /\ events[r] = <<"BeforeRun", "Remove">>
        /\ r \notin runMap /\ Ready /\ Alive

\* the steps of an iteration whose NextQueueItem returned an error: the
\* return of the call with an error, and the look at ctx.Done() after it
QueueErrorStep ==
    \/ loopPc = "next" /\ loopPc' \in {"start", "chkCtx"}
    \/ loopPc = "chkCtx" /\ loopPc' = "start"

\* C30: an iteration whose NextQueueItem returned an error (NotFound or any
\* other) makes no RunContext and no cancel token, takes no item, leaves
\* e.runMap and the executor alone and starts no goroutine; it sets
\* terminate only in its look at ctx.Done(), and only when the lifetime
\* context is cancelled; otherwise terminate keeps its value.
C30_QueueErrorFrame ==
    [][QueueErrorStep =>
          /\ UNCHANGED <<runMap, rpc, ctxDone, cur, nextId, status, events>>
          /\ UNCHANGED execVars
          /\ terminate' = (terminate \/ (loopPc = "chkCtx" /\ lifetimeDone))]_vars

\* NextQueueItem has returned an error other than NotFound with the lifetime
\* context cancelled, terminate not set and a run in e.runMap
C30_Witness ==
    /\ Alive /\ loopPc = "chkCtx" /\ lifetimeDone /\ ~terminate
    /\ runMap # {}

\* boot created the container of the run (docker.go 412-424) and RunDocker
\* returns the error of ContainerStart or of ContainerWait: the container
\* was not seen to end, so AutoRemove has not removed it; what removes it is
\* ContainerRemove(Force) in Run.AfterRun (run.go 47-52), which the run
\* goroutine calls after Run() returned
ContainerLeft == dErr \in {"start", "wait"}

\* C31: the overlay of a run is unmounted only when no container of the run
\* can exist any more: never while a container that boot created is left
\* for ContainerRemove(Force).
C31_RemoveBeforeUnmount ==
    [][(unmounts' = unmounts + 1) => ~ContainerLeft]_vars

\* RunDocker has returned after an overlay failure: MountRepo returned an
\* error (a TempDir or Mount failed), or the Unmount of MountCleanup failed
\* (the overlay is still mounted)
OverlayFailed == dPc = "returned" /\ (dErr = "mount" \/ mounted)

\* C32: after an overlay failure no temp directory of the run is left: a
\* failed MountRepo leaves no directory and nothing mounted, and a failed
\* Unmount in MountCleanup does not keep the three directories from being
\* removed.
C32_OverlayFailureCleans ==
    OverlayFailed => (tmpDirs = {} /\ (dErr = "mount" => ~mounted))

\* the four paths of a Mount struct are absolute and without ".."
AllPathsGood(m) ==
    \A dir \in {m.Lower, m.Work, m.Upper, m.Target} :
        IsAbs(dir) /\ ~ContainsDotDot(dir)

\* a step that is a call of Mount or Unmount
OverlayCall == oOp' \in {"Mount", "Unmount"} /\ ovl' = ovl

\* C33: Mount and Unmount check the four paths before they make a system
\* call: with a path that is not absolute or contains ".." the call returns
\* validate's error and the mounts are as before; with four good paths the
\* system call is made and only its own error can be returned.
C33_ValidateBeforeSyscall ==
    [][OverlayCall =>
          /\ ~AllPathsGood(ovl)
                => (oErr' = "invalid" /\ mountTable' = mountTable)
          /\ AllPathsGood(ovl) => oErr' # "invalid"]_vars

\* Unmount was refused for a struct whose Lower is the one bad path, with its
\* Target still mounted
C33_Witness ==
    /\ oOp = "Unmount" /\ oErr = "invalid"
    /\ ovl.Target \in mountTable
    /\ ~IsAbs(ovl.Lower) \/ ContainsDotDot(ovl.Lower)
    /\ \A dir \in {ovl.Work, ovl.Upper, ovl.Target} :
          IsAbs(dir) /\ ~ContainsDotDot(dir)

\* a step that is one iteration of outputPullRead's loop on a JSON line
LineStep == pPc = "scan" /\ scanned' = scanned + 1 /\ pPc' = "scan"

\* the line names a layer
HasLayer(m) == m.id \notin {"", NoField}

\* C34: per event of the pull stream: Downloading with a non-empty
\* progressDetail sets the pair of the event's layer to (current, total);
\* Pull complete sets it to (total, total) with the total on record, or to
\* (1, 1) for a layer not on record; no other layer's pair changes; an event
\* with another status or none leaves the map alone and renders nothing;
\* and whatever is rendered has a sum of totals that is not 0.
C34_PullProgress ==
    /\ [][LineStep =>
          LET m  == line'
              pd == m.progressDetail
          IN  /\ (m.status = "Downloading" /\ HasLayer(m) /\ pd.ok /\ pd.len # 0)
                    => idMap'[m.id] = <<pd.current, pd.total>>
              /\ (m.status = "Pull complete" /\ HasLayer(m))
                    => idMap'[m.id] = IF m.id \in DOMAIN idMap
                                      THEN <<idMap[m.id][2], idMap[m.id][2]>>
                                      ELSE <<1, 1>>
              /\ \A l \in DOMAIN idMap : l # m.id => (l \in DOMAIN idMap'
                                                     /\ idMap'[l] = idMap[l])
              /\ (m.status \notin {"Downloading", "Pull complete"})
                    => (idMap' = idMap /\ rendered' = rendered)]_vars
    /\ [](\A i \in DOMAIN rendered : rendered[i][2] # 0)

\* a layer reported as downloading 1 of 2 was completed to (2, 2) and the
\* progress was rendered
C34_Witness ==
    /\ line.status = "Pull complete" /\ line.id = "l1"
    /\ "l1" \in DOMAIN idMap /\ idMap["l1"] = <<2, 2>>
    /\ Len(rendered) >= 2
    /\ rendered[Len(rendered) - 1] = <<1, 2>>
    /\ rendered[Len(rendered)] = <<2, 2>>

\* the commands of CloneOrFetch for an existing repository directory
ExistingSteps ==
    <<"clean", "reset", "checkout branch", "submodule update", "fetch origin",
      "rebase">>

\* the commands run before CloneOrFetch is called: those of systemInit
NumConfig == IF sub.gitconfig THEN 0 ELSE 2

\* a step in which CloneOrFetch runs a command
CofStep == rPc = "CloneOrFetch" /\ Len(cmds') = Len(cmds) + 1

C36_K8sRunResult ==
    /\ [][(kPc = "get" /\ kPc' = "loop") => ~polled'.Finished]_vars
    /\ [][(kPc = "get" /\ kPc' = "cleanClient" /\ kRes'.err = "none")
            => (polled'.Finished /\ kRes'.status = polled'.Success)]_vars
    /\ [][(kPc = "loop" /\ kCtx /\ kPc' # "loop")
            => kRes' = [status |-> FALSE, err |-> "none"]]_vars
    /\ [][(kPc = "loop" /\ ~kCtx /\ kPc' # "loop") => kPc' = "get"]_vars
    /\ [][copies' # copies
            => (kPc = "get" /\ polled'.PodName /\ copies = 0 /\ copies' = 1)]_vars
    /\ [][kPc = "returned" => kRes' = kRes]_vars

\* Run returned true for a job that finished with Success, with one copyLog
\* started by an earlier poll
C36_Witness ==
    /\ kPc = "returned" /\ kRes = [status |-> TRUE, err |-> "none"]
    /\ polled.Finished /\ polled.Success /\ ~polled.PodName
    /\ copies = 1

\* C37: when Run of the k8s runner has returned, a Delete was issued for
\* the Secret if the run created it and for the CIJob if the run created
\* it.
C37_K8sDeletesIssued ==
    kPc = "returned" =>
        /\ secret # "none" => "secret" \in deletes
        /\ job # "none" => "job" \in deletes

\* C38: the cancel token of every run whose goroutine has ended becomes
\* done (or the process exits), so that the poller of the run, which ends
\* only on a done token, does not poll for ever.
C38_PollerTerminates ==
    \A r \in Runs :
        (rpc[r] = "done") ~> (ctxDone[r] # "no" \/ exited # "no")

\* the queue service knows how run r ended: it holds a status for the run,
\* or the run's cancel state there is true
OutcomeKnown(r) == qStatus[r] # "unset" \/ qCancel[r]

\* C39: a run is removed from e.runMap only after its outcome became known
\* to the queue service: a SetStatus for it was recorded (or answered
\* "status already set"), or its cancel state was read as true.
C39_ReportBeforeRemoval ==
    [][\A r \in Runs :
          (r \in runMap /\ r \notin runMap') => OutcomeKnown(r)]_vars

\* C40: when RunDocker has returned, on whichever path, the cancel token of
\* its run is done, so that the pollers of the run end, and the logger is
\* no longer reading the pipe: the writer was closed, or Asset.Write had
\* returned before.
C40_TokenDoneAndPipeClosed ==
    /\ [](dPc = "returned"
            => (ctxDone[dRun] # "no" /\ ~PollerLive(dRun) /\ logger # "reading"))
    /\ [][(dPc # "returned" /\ dPc' = "returned")
            => (logger = "reading" => logger' = "off")]_vars

\* RunDocker returned the error of ContainerWait with the token fired by its
\* own deferred cancel and the logger ended by the Close of the writer
C40_Witness ==
    /\ dPc = "returned" /\ dErr = "wait"
    /\ ctxDone[dRun] = "finished" /\ logger = "off"

====
